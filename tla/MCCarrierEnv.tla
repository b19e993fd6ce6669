---------------------------- MODULE MCCarrierEnv ----------------------------
EXTENDS CarrierEnv, TLC

\* Lines of a handover file: longitude, latitude, RSRP, handover, cell.
Success(x, y) == <<x, y, -90, 1, 1>>
Failure(x, y) == <<x, y, -90, 2, 1>>

Mixed == <<Success(2, 0), Failure(2, 1), <<2, 0, NaN, 0, 1>>, <<9, 0, -90, 1, 1>>>>
Failing == <<Success(1, 0), Failure(2, 1), Failure(2, 0)>>
Broken == <<Success(2, 0), <<NaN, 0, -90, 1, 1>>, <<1, NaN, -90, NaN, 1>>, <<1, 0, -90, 1, NaN>>>>
Wide == <<<<1, 0, -90, 1, 100>>, Success(1, 0)>>
NoCell == <<Success(1, 0), <<1, 0, -90, 1>>>>
NoHandover == <<Success(1, 0), <<1, 0>>>>

Location(x, y, t) == [lng |-> x, lat |-> y, time |-> t]

\* A way along which a handover comes nearer, is passed and left behind, and
\* reports that repeat a place, a time or both.
MCLocations == {Location(0, 0, 1), Location(1, 0, 2), Location(2, 0, 3), Location(3, 1, 3),
                Location(2, 0, 4), Location(9, 9, 5)}

MCHoFiles == {<<>>, <<Mixed>>, <<Failing>>, <<Broken>>, <<Wide>>, <<NoCell>>, <<NoHandover>>}

\* The memory behind a block that lacks its cell: some cell, or something else.
MCJunk == {1, 50}

FewLocations == {Location(0, 0, 1), Location(1, 0, 2), Location(9, 9, 3)}
TwoLocations == {Location(0, 0, 1), Location(1, 0, 2)}
OneFile == {<<Mixed>>}

ReaderSymmetry == Permutations(Readers)
=============================================================================
