----------------------------- MODULE RknnRunner -----------------------------
(***************************************************************************)
(* The memory of src/src/rknn_runner.cpp: rknn_runner_create, which        *)
(* acquires it piece by piece, rknn_runner_process, which uses it, and     *)
(* rknn_runner_internal_release.                                           *)
(*                                                                         *)
(* A cell is a pointer or handle the code keeps.  malloc does not clear,   *)
(* so a cell is "unset", and holds anything, until it is assigned.         *)
(* Release takes an unset cell for held when its contents are not zero:    *)
(* `wild` collects those cells.  What a build does then is open; the model *)
(* keeps the outcome in which nothing else changes.                        *)
(***************************************************************************)
EXTENDS Integers, Sequences, FiniteSets

CONSTANTS
  NIn, NOut   \* io_num of the model: its inputs and outputs

(* Assumed of the constants, where they get values (Startup).              *)
IoAssumption == NIn \in Nat \ {0} /\ NOut \in Nat \ {0}

(* The calls of rknn_runner_create that can fail, in order, and where a    *)
(* failure goes: free(runner), the label release, or just return NULL.  A  *)
(* call is named after the cell it assigns, if any.                        *)
Calls ==
  <<<<"runner", "return">>, <<"ctx", "free">>,
    <<"sdk_version", "return">>, <<"io_num", "return">>,
    <<"input_attrs", "release">>, <<"query_inputs", "return">>,
    <<"output_attrs", "release">>, <<"query_outputs", "return">>,
    <<"custom_string", "return">>,
    <<"input_mems", "release">>, <<"output_mems", "release">>,
    <<"set_io_mem", "release">>>>

(* Cell <<f, 0>> is the member f of the runner (or the runner itself), cell *)
(* <<f, i>> the i-th entry of the table of tensor memory that f points to.  *)
Entries(f) ==
  CASE f = "input_mems" -> {<<f, i>> : i \in 1 .. NIn}
    [] f = "output_mems" -> {<<f, i>> : i \in 1 .. NOut}

Tables == {"input_mems", "output_mems"}
Pointers == {<<f, 0>> : f \in {"input_attrs", "output_attrs"} \cup Tables}
Mems == UNION {Entries(f) : f \in Tables}
Own == {<<"runner", 0>>, <<"ctx", 0>>}
Cells == Own \cup Pointers \cup Mems

VARIABLES
  rphase,  \* create, ready, null (create returned NULL), gone (destroyed)
  rcall,   \* next call of rknn_runner_create
  cell,    \* of each cell: unset, null, held, freed
  wild     \* unset cells that were used as if they were held

rvars == <<rphase, rcall, cell, wild>>

Init ==
  /\ rphase = "create" /\ rcall = 1
  /\ cell = [c \in Cells |-> "unset"]
  /\ wild = {}
-----------------------------------------------------------------------------
Call == Calls[rcall][1]
OnFailure == Calls[rcall][2]

(* What a call assigns.  input_mems gets its first entry only.             *)
Assigned ==
  CASE Call = "input_mems" -> {<<Call, 0>>, <<Call, 1>>}
    [] Call = "output_mems" -> {<<Call, 0>>} \cup Entries(Call)
    [] OTHER -> {<<Call, 0>>} \cap Cells

Unbacked == \E m \in Mems : cell[m] = "null"

(* The call succeeds.  The results of rknn_create_mem are not checked, so  *)
(* an entry (one at most, here) may be NULL; then set_io_mem must fail.    *)
CreateCall ==
  /\ rphase = "create"
  /\ ~(Call = "set_io_mem" /\ Unbacked)
  /\ \E nulls \in {{}} \cup {{m} : m \in Assigned \cap Mems} :
       cell' = [c \in Cells |-> IF c \in nulls THEN "null"
                                ELSE IF c \in Assigned THEN "held" ELSE cell[c]]
  /\ IF rcall = Len(Calls) THEN rphase' = "ready" /\ UNCHANGED rcall
                            ELSE rcall' = rcall + 1 /\ UNCHANGED rphase
  /\ UNCHANGED wild

Freeing(mem, seen) ==
  /\ cell' = [c \in Cells |-> IF c \in seen /\ mem[c] = "held" THEN "freed" ELSE mem[c]]
  /\ \E w \in SUBSET {c \in seen : mem[c] = "unset"} : wild' = wild \cup w

ReleaseOnce(mem) ==   \* mutant: only the first output memory is destroyed
  Freeing(mem, Own \cup Pointers \cup
    {<<f, 1>> : f \in {g \in Tables : mem[<<g, 0>>] = "held"}})

(* rknn_runner_internal_release on the cells as they are in mem: it walks  *)
(* all n_input and n_output entries of the tables it finds.                *)
Release(mem) ==
  Freeing(mem, Own \cup Pointers \cup
    UNION {Entries(f) : f \in {g \in Tables : mem[<<g, 0>>] = "held"}})

(* The call fails and assigns NULL, if anything; create returns NULL.      *)
CreateFails ==
  LET mem == [c \in Cells |-> IF c = <<Call, 0>> THEN "null" ELSE cell[c]] IN
  /\ rphase = "create"
  /\ CASE OnFailure = "return" -> cell' = mem /\ UNCHANGED wild
       [] OnFailure = "free" -> cell' = [mem EXCEPT ![<<"runner", 0>>] = "freed"] /\ UNCHANGED wild
       [] OnFailure = "release" -> Release(mem)
  /\ rphase' = "null"
  /\ UNCHANGED rcall

(* rknn_runner_process and its callback rknn_runner_post read the input's  *)
(* and the outputs' attributes and memory.                                 *)
Process ==
  /\ rphase = "ready"
  /\ wild' = wild \cup {c \in {<<"input_mems", 1>>} \cup Own \cup Pointers \cup Entries("output_mems") :
                          cell[c] # "held"}
  /\ UNCHANGED <<rphase, rcall, cell>>

(* rknn_runner_destroy; NULL is accepted.                                  *)
Destroy ==
  \/ rphase = "ready" /\ Release(cell) /\ rphase' = "gone" /\ UNCHANGED rcall
  \/ rphase = "null" /\ UNCHANGED rvars

Next == CreateCall \/ CreateFails \/ Process \/ Destroy

Spec == Init /\ [][Next]_rvars
-----------------------------------------------------------------------------
TypeOK ==
  /\ rphase \in {"create", "ready", "null", "gone"} /\ rcall \in DOMAIN Calls
  /\ cell \in [Cells -> {"unset", "null", "held", "freed"}]
  /\ wild \subseteq Cells

Held == {c \in Cells : cell[c] = "held"}

(* Where create failed on a query it forgets what it has; from everywhere  *)
(* else, and from destroy, everything is given back.  An unset cell is     *)
(* used only if malloc failed before all tables existed or if the model    *)
(* has inputs beyond the first; process never meets one.                   *)
GivenBack ==
  /\ rphase = "gone" => Held = {}
  /\ rphase = "null" /\ Held # {} =>
       Own \subseteq Held /\ cell[<<"input_mems", 0>>] = "unset"
  /\ wild # {} =>
       \/ rphase = "null" /\ \E p \in Pointers : cell[p] = "null"
       \/ NIn > 1
=============================================================================
