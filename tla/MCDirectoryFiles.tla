---------------------------- MODULE MCDirectoryFiles ----------------------------
EXTENDS DirectoryFiles

\* Directory files with all three lists, with comments and blank lines, without
\* handover files, without separators, with a second handover file, with a file
\* that does not exist, and with lines after the third separator.
MCDirFiles == {
    <<"d", "d", "F", "h", "F", "b">>,
    <<"#", "d", "", "F", "", "h", "F">>,
    <<"d", "F", "F", "b">>,
    <<"d", "h">>,
    <<"F", "h", "h", "F">>,
    <<"gone", "F", "h">>,
    <<"F", "F", "b", "F", "d">>}
=============================================================================
