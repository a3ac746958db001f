----------------------------- MODULE MCThreadPool -----------------------------
(***************************************************************************)
(* Instances of ThreadPool for TLC.                                        *)
(***************************************************************************)
EXTENDS ThreadPool

\* Fewer tasks than workers, then as many, so that two idle workers meet at one
\* victim's last task. One task of the second batch may fail: after a failing batch
\* pir::PassManager gives up.
PassBatches == <<1, 3>>
LastFails   == {<<2, 1>>}
=============================================================================
