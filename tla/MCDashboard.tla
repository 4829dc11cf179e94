---------------------------- MODULE MCDashboard ----------------------------
EXTENDS Dashboard

\* More files than workers; a row next to an upload; a row and an upload each
\* next to the meter.
Parts == {<<0, 3, FALSE>>, <<1, 1, FALSE>>, <<1, 0, TRUE>>, <<0, 1, TRUE>>}

\* A batch of two files is enough to be misled.
SmallPage == {<<0, 2, FALSE>>}
=============================================================================
