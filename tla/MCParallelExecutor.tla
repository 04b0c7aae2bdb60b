-------------------------- MODULE MCParallelExecutor --------------------------
(***************************************************************************)
(* A plan for TLC: a diamond whose join lists a dependency twice, and a    *)
(* second source whose downstream meets the diamond's below the join; more *)
(* operations can run at a time than there are slots, in all and for one   *)
(* tag.                                                                    *)
(***************************************************************************)
EXTENDS ParallelExecutor

CONSTANTS llm, io

MCDeps == <<<<>>, <<1>>, <<1, 1>>, <<2, 3, 2>>, <<>>, <<5>>, <<6, 4>>>>
MCTags == <<NoTag, llm, NoTag, llm, llm, io, NoTag>>

AutoLlm == [t \in Tag |-> IF t = llm THEN Automatic ELSE Unset]
=============================================================================
