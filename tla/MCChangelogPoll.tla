--------------------------- MODULE MCChangelogPoll ---------------------------
(* An instance of ChangelogPoll for TLC.                                    *)
EXTENDS ChangelogPoll

CONSTANTS s1, s2, t1, a, b

TheBatches == {<<a>>, <<a, b>>, <<b, a>>}

TheExternal == {[op |-> "DELETE", tuple |-> a, source |-> "sync"]}
=============================================================================
