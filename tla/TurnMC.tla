------------------------------- MODULE TurnMC -------------------------------
(* Small instances of Turn: one file, the operations named below.             *)
EXTENDS Turn, TLC

CONSTANTS file, here, there, bare, demand

On(tool, args) == [tool |-> tool, files |-> {file}, args |-> args, demand |-> demand]
Bare(tool) == [tool |-> tool, files |-> {}, args |-> bare, demand |-> demand]
Alike == {<<demand, demand>>}

(* One operation of each kind the gate distinguishes, and two writes.  The     *)
(* scoped check and the test are the same command.                             *)
Operations == {On("write", here), On("write", there), On("scoped", bare),
               Bare("opaque"), Bare("test"), Bare("plan")}
Interchangeable ==
    Permutations(Content) \cup Permutations(Call) \cup Permutations({here, there})
=============================================================================
