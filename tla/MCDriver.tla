------------------------------ MODULE MCDriver ------------------------------
EXTENDS Driver

\* Lines of a handover file: longitude, latitude, RSRP, handover, cell.
History == <<<<2, 0, -90, 1, 1>>, <<2, 1, -90, 2, 1>>, <<3, 0, -90, 1, 2>>>>

\* Lines of a trace and of a ground truth.
Report(x, speed, time, cell) == <<x, 0, speed, 0, 0, 0, 0, time, 0, cell>>
Truth(handover, time, cell) == <<0, 0, 0, handover, time, cell>>

Slow == Report(1, 100, 2, 1)

\* Coming nearer, standing still, in another cell, far from any handover.
Reports == {Report(0, 300, 1, 1), Report(1, 300, 2, 1), Report(1, 220, 3, 2),
            Report(9, 300, 4, 1), Slow}

\* No number for a speed or for a cell; the cell of a fresh prediction.
Odd == {Report(1, NaN, 2, 1), Report(1, 300, 2, NaN), Report(1, 300, 2, 0), <<1, 0, 300>>}

Traces == {<<>>, [i \in 1..4 |-> Report(1, 300, i, 1)]}
          \cup {<<a>> : a \in Reports \cup Odd}
          \cup {<<a, b>> : a, b \in Reports \cup Odd}
          \cup {<<a, b, c>> : a, b, c \in Reports}

\* One failed handover, and another one nearby or much later; short lines.
Truths == {<<Truth(2, 4, 1)>>,
           <<Truth(2, 4, 1), Truth(1, 5, 1), Truth(1, 2, 2)>>,
           <<Truth(1, 3, 1), Truth(2, 9, 1), <<0, 0, 0, 1>>>>}

Evaluate(carrier, trace, truth) ==
    [carrier |-> carrier, trace |-> trace, truth |-> truth, ho_files |-> <<History>>,
     missing |-> {}]

CONSTANTS main, Mobile, Telecom

\* main() with one evaluation, with a second one that follows the first, with no
\* history, a history of short lines and a trace of short lines, and with a second
\* evaluation that misses some of its files.
MCPrograms ==
    {<<Evaluate(Mobile, trace, truth)>> : trace \in Traces, truth \in Truths}
    \cup {<<Evaluate(Mobile, <<Report(0, 300, 1, 1)>>, <<>>),
            Evaluate(carrier, <<Report(x, 300, 2, cell)>>, <<>>)>> :
              carrier \in {Mobile, Telecom}, x \in {1, 9}, cell \in {1, 2}}
    \cup {<<[Evaluate(Mobile, <<Report(1, 300, 2, 1)>>, <<>>) EXCEPT !.ho_files = files]>> :
              files \in {<<>>, <<<<<<2, 0, -90>>>>>>}}
    \cup {<<Evaluate(Mobile, <<<<1>>>>, <<>>)>>}
    \cup {<<Evaluate(Mobile, <<Report(0, 300, 1, 1)>>, <<>>),
            [Evaluate(Telecom, <<Report(1, 300, 2, 1)>>, <<>>) EXCEPT !.missing = missing]>> :
              missing \in SUBSET Inputs}

SlowPrograms == {<<Evaluate(Mobile, <<Slow>>, <<>>)>>}

\* Memory of zeroes, or the place and time of a report.
MCPlaces == {[lng |-> 0, lat |-> 0, time |-> 0], [lng |-> 1, lat |-> 1, time |-> 2]}
MCJunk == {1}
MCMinCid == -100
=============================================================================
