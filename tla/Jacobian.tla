------------------------------ MODULE Jacobian ------------------------------
(***************************************************************************)
(* The Jacobian callbacks of the integration, jac_Jacobian (dense) and     *)
(* jac_JacobianSparse: columns of df/dy by finite differences.  Columns    *)
(* that share no row are perturbed together, group by group.  When an      *)
(* evaluation fails, the dense callback starts over one column at a time,  *)
(* and tries a column again with smaller increments.                       *)
(*                                                                         *)
(* Numbers are abstracted: an increment is which of the increments of its  *)
(* column it is, the result of an evaluation is which columns it was made  *)
(* with, and an entry of J is right if it is the difference it should be.  *)
(***************************************************************************)
EXTENDS Integers, FiniteSets

CONSTANTS
    N,          \* the number of states
    Failures    \* how often in a row evaluations may fail around one column

Columns  == 1 .. N
Attempts == 5

VARIABLES
    Sparse,    \* the sparse solver is used (QSparse, the environment)
    depends,   \* <<i, j>>: the derivative i depends on the state j (generated code)
    group,     \* the group of each column, 0 if there are none (generated code)
    pc,        \* what the callback does next
    g,         \* the present group
    col,       \* the present column
    k,         \* failed attempts at it
    y,         \* which increment each state carries, 0 for none
    ftmp,      \* what the last successful evaluation was made with
    J,         \* the dense matrix: "old", "zero", "right" or "wrong" entries
    data,      \* the entries of the sparse matrix, column after column,
    rowvals,   \* and the row of each, 0 if none was written
    exhausted, \* history: columns none of whose evaluations succeeded
    inJacobian \* mInJacobian

vars == <<Sparse, depends, group, pc, g, col, k, y, ftmp, J, data, rowvals,
          exhausted, inJacobian>>

matrices == <<J, data, rowvals, exhausted>>

Unperturbed == [j \in Columns |-> 0]

(* No evaluation has been kept in ftmp yet; its content is from elsewhere. *)
NoEvaluation == [j \in Columns |-> -1]

(* The increments of a column: dy, -dy/5, ... *)
Increments == 0 .. Attempts + 1

----------------------------------------------------------------------------
(* The sparse matrix (EnableSparse, PrepareSparse): where the entry of     *)
(* row i is kept when the group n is evaluated, found from the first       *)
(* position of its column; -1 if the group has no entry in the row.        *)
Owner(i, n) == {j \in Columns : group[j] = n /\ <<i, j>> \in depends}

Nz == Cardinality({e \in Columns \X (1 .. N) : Owner(e[1], e[2]) # {}})
Cells == IF Sparse THEN 0 .. Nz - 1 ELSE {}

Grouped == {e \in depends : group[e[2]] # 0}

ColPtr(j) == Cardinality({e \in Grouped : e[2] < j})

Index(i, n) ==
    IF Owner(i, n) = {} THEN -1
    ELSE LET j == CHOOSE j \in Owner(i, n) : TRUE
         IN  ColPtr(j) + Cardinality({r \in Columns : r < i /\ <<r, j>> \in depends})

TypeOK ==
    /\ Sparse \in BOOLEAN
    /\ depends \in SUBSET (Columns \X Columns)
    /\ group \in [Columns -> 0 .. N]
    /\ pc \in {"called", "groups", "columns", "computed", "failed"}
    /\ g \in 1 .. N + 1 /\ col \in 1 .. N + 1
    /\ k \in 0 .. Attempts
    /\ y \in [Columns -> Increments]
    /\ ftmp \in [Columns -> Increments] \cup {NoEvaluation}
    /\ J \in [Columns \X Columns -> {"old", "zero", "right", "wrong"}]
    /\ data \in [Cells -> {"old", "right", "wrong"}]
    /\ rowvals \in [Cells -> Columns \cup {0}]
    /\ exhausted \subseteq Columns
    /\ inJacobian \in {0, 1}

----------------------------------------------------------------------------
(* The generated code's groups: columns of one group share no row. *)
Grouping(dep, gr) ==
    \/ gr = [j \in Columns |-> 0]
    \/ /\ \E n \in Columns : {gr[j] : j \in Columns} = 1 .. n
       /\ \A i, j, l \in Columns :
             <<i, j>> \in dep /\ <<i, l>> \in dep /\ j # l => gr[j] # gr[l]

Groups == Cardinality({group[j] : j \in Columns} \ {0})
Members == {j \in Columns : group[j] = g}

Init ==
    /\ Sparse \in BOOLEAN
    /\ depends \in SUBSET (Columns \X Columns)
    /\ group \in {gr \in [Columns -> 0 .. N] : Grouping(depends, gr)}
    /\ pc = "called"
    /\ g = 1 /\ col = 1 /\ k = 0
    /\ y = Unperturbed
    /\ ftmp = NoEvaluation
    /\ J = [e \in Columns \X Columns |-> "old"]
    /\ data = [p \in Cells |-> "old"]
    /\ rowvals = [p \in Cells |-> 0]
    /\ exhausted = {}
    /\ inJacobian = 0

(* An entry is the difference of two evaluations over the increment inc;   *)
(* it is right if only the column's own increment is in what the row sees. *)
Entry(i, j, inc) ==
    IF ftmp' # NoEvaluation /\ \A l \in Columns :
           <<i, l>> \in depends => ftmp'[l] = IF l = j THEN inc ELSE 0
    THEN "right" ELSE "wrong"

(* Mutant of Return: the flag is a count of nested calls. *)
ReturnNested(result) == pc' = result /\ inJacobian' = inJacobian - 1

Return(result) == pc' = result /\ inJacobian' = 0

(* Error weights and the norm of f: compute_Jconf. *)
ConfigurationFails ==
    /\ pc = "called"
    /\ Return("failed")
    /\ UNCHANGED <<Sparse, depends, group, g, col, k, y, ftmp, matrices>>

(* compute_Jdata starts from a zero matrix; the sparse one is overwritten. *)
Zeroed == IF Sparse THEN J ELSE [e \in Columns \X Columns |-> "zero"]

Begin ==
    /\ pc = "called"
    /\ IF Groups > 0
       THEN pc' = "groups" /\ inJacobian' = 1 /\ J' = Zeroed
       ELSE J' = J /\ IF Sparse THEN Return("failed") ELSE pc' = "columns" /\ inJacobian' = 1
    /\ UNCHANGED <<Sparse, depends, group, g, col, k, y, ftmp, data, rowvals, exhausted>>

(* compute_Jdata, compute_JdataSparse: all members of a group at once.     *)
Perturb ==
    /\ pc = "groups" /\ y = Unperturbed /\ g <= Groups
    /\ y' = [j \in Columns |-> IF j \in Members THEN 1 ELSE 0]
    /\ UNCHANGED <<Sparse, depends, group, pc, g, col, k, ftmp, matrices, inJacobian>>

(* Mutant of GroupRestored: states are put back if the evaluation was good. *)
GroupRestoredIfGood(good) == IF good THEN Unperturbed ELSE y

GroupRestored(good) == Unperturbed

(* The differences that are stored: where the pattern of the group has     *)
(* entries.                                                                *)
GroupStored(e) == e[2] \in Members /\ e \in depends

(* compute_Jdata and compute_JdataSparse store them. *)
DenseStored ==
    /\ J' = [e \in Columns \X Columns |-> IF GroupStored(e) THEN Entry(e[1], e[2], 1) ELSE J[e]]
    /\ UNCHANGED <<data, rowvals>>

SparseStored ==
    LET Kept(p) == {e \in Columns \X Columns : GroupStored(e) /\ Index(e[1], g) = p}
        One(p) == CHOOSE e \in Kept(p) : TRUE
    IN  /\ data' = [p \in Cells |->
                        IF Kept(p) = {} THEN data[p] ELSE Entry(One(p)[1], One(p)[2], 1)]
        /\ rowvals' = [p \in Cells |-> IF Kept(p) = {} THEN rowvals[p] ELSE One(p)[1]]
        /\ UNCHANGED J

EvaluateGroup ==
    /\ pc = "groups" /\ y # Unperturbed
    /\ y' = GroupRestored(TRUE)
    /\ ftmp' = y
    /\ IF Sparse THEN SparseStored ELSE DenseStored
    /\ g' = g + 1
    /\ UNCHANGED <<Sparse, depends, group, pc, col, k, exhausted, inJacobian>>

(* Failed: without groups now, or for the sparse solver not at all. *)
GroupFails ==
    /\ pc = "groups" /\ y # Unperturbed
    /\ y' = GroupRestored(FALSE)
    /\ IF Sparse THEN Return("failed") ELSE pc' = "columns" /\ UNCHANGED inJacobian
    /\ UNCHANGED <<Sparse, depends, group, g, col, k, ftmp, matrices>>

GroupsDone ==
    /\ pc = "groups" /\ y = Unperturbed /\ g > Groups
    /\ Return("computed")
    /\ UNCHANGED <<Sparse, depends, group, g, col, k, y, ftmp, matrices>>

----------------------------------------------------------------------------
(* One column at a time. *)

(* The column is complete: from ftmp and the increment inc, whatever they  *)
(* are.                                                                    *)
ColumnStored(inc) ==
    /\ J' = [e \in Columns \X Columns |-> IF e[2] = col THEN Entry(e[1], col, inc) ELSE J[e]]
    /\ y' = [y EXCEPT ![col] = 0]
    /\ col' = col + 1
    /\ k' = 0

EvaluateColumn ==
    /\ pc = "columns" /\ col <= N
    /\ ftmp' = [y EXCEPT ![col] = k + 1]
    /\ ColumnStored(k + 1)
    /\ UNCHANGED exhausted
    /\ UNCHANGED <<Sparse, depends, group, pc, g, data, rowvals, inJacobian>>

(* A failed attempt: the next one has a smaller increment of the other     *)
(* sign.  After the last one the column is stored all the same (k > 5 is   *)
(* never true): by the increment after the last.                           *)
ColumnFails ==
    /\ pc = "columns" /\ col <= N
    /\ k < Failures
    /\ ftmp' = ftmp
    /\ IF k + 1 < Attempts
       THEN y' = [y EXCEPT ![col] = k + 1] /\ k' = k + 1 /\ UNCHANGED <<J, col, exhausted>>
       ELSE ColumnStored(Attempts + 1) /\ exhausted' = exhausted \cup {col}
    /\ UNCHANGED <<Sparse, depends, group, pc, g, data, rowvals, inJacobian>>

ColumnsDone ==
    /\ pc = "columns" /\ col > N
    /\ Return("computed")
    /\ UNCHANGED <<Sparse, depends, group, g, col, k, y, ftmp, matrices>>

Returned == pc \in {"computed", "failed"}

(* CVode asks for the next Jacobian: tmp1 and J hold anything. *)
CallAgain ==
    /\ Returned
    /\ pc' = "called"
    /\ g' = 1 /\ col' = 1 /\ k' = 0
    /\ ftmp' = NoEvaluation
    /\ J' = [e \in Columns \X Columns |-> "old"]
    /\ data' = [p \in Cells |-> "old"]
    /\ rowvals' = [p \in Cells |-> 0]
    /\ exhausted' = {}
    /\ UNCHANGED <<Sparse, depends, group, y, inJacobian>>

Next ==
    \/ ConfigurationFails \/ Begin
    \/ Perturb \/ EvaluateGroup \/ GroupFails \/ GroupsDone
    \/ EvaluateColumn \/ ColumnFails \/ ColumnsDone
    \/ CallAgain

Spec == Init /\ [][Next]_vars

----------------------------------------------------------------------------
(* The states are CVode's own vector: whatever failed, no increment may be *)
(* left in it when the callback returns, nor the flag that tells the       *)
(* equations they are evaluated for a Jacobian.                            *)
LeavesStates == Returned => y = Unperturbed /\ inJacobian = 0

(* A dense matrix that is reported as computed has the right difference in *)
(* every entry, also after some evaluations failed: none is left from the  *)
(* abandoned groups, from the last matrix, or from another column.  A      *)
(* column is excepted if all the attempts at it failed: "failed" is then   *)
(* meant, but `k > 5' is not reached.                                      *)
DenseIsRight ==
    pc = "computed" /\ ~Sparse =>
        \A e \in Columns \X Columns :
            J[e] = "right" \/ (e \notin depends /\ J[e] = "zero") \/ e[2] \in exhausted

(* A sparse one is a matrix in compressed columns: between the first       *)
(* position of a column and that of the next are its rows, each once, with *)
(* the right differences, and the last position is what was allocated for. *)
SparseIsRight ==
    pc = "computed" /\ Sparse =>
        /\ ColPtr(N + 1) = Nz
        /\ \A j \in Columns : group[j] # 0 =>
              LET column == ColPtr(j) .. ColPtr(j + 1) - 1
              IN  /\ {rowvals[p] : p \in column} = {i \in Columns : <<i, j>> \in depends}
                  /\ \A p \in column : data[p] = "right"

(* In either form, what is reported as computed is the Jacobian. *)
ComputedIsRight == DenseIsRight /\ SparseIsRight
=============================================================================
