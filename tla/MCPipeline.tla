----------------------------- MODULE MCPipeline -----------------------------
(* Pipeline with four ways to set its logger up. *)
EXTENDS Pipeline, TLC

MCSettings ==
  {[min_level |-> 0, is_colored |-> FALSE, time |-> <<"t", "t">>],
   [min_level |-> 1, is_colored |-> TRUE, time |-> <<"t", "t", "t">>],
   \* no time, and too long a time
   [min_level |-> 0, is_colored |-> FALSE, time |-> <<>>],
   [min_level |-> 0, is_colored |-> TRUE, time |-> [i \in 1 .. 20 |-> "t"]]}

MCChars == {Blank, "0", Newline, "t", "p", "c"} \cup ToSet(level_strs)
MCPassMsg == <<"p">>
(* In a block of 20, 11 characters are the most that fit behind the shorter prefix. *)
MCClientMsgs == {[i \in 1 .. n |-> "c"] : n \in {1, 11, 12}}
=============================================================================
