---------------------------- MODULE MC_EngineWal ----------------------------
(* Small instances of EngineWal. *)
EXTENDS EngineWal, TLC

(* Keys are interchangeable. *)
Symm == Permutations(Key)

(* The last statement is not read once it has ended. *)
View == <<disk, memory, stage, IF stage \in {"idle", "down", "recover", "shutdown"} THEN NoOp ELSE op,
          history, bounds>>

(* After a statement that failed midway, or that took a key it gave up, the *)
(* properties promise nothing: such a state is checked and not left.        *)
Promised == odd \cap {"refused", "chained"} = {}
=============================================================================
