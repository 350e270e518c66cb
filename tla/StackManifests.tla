---------------------------- MODULE StackManifests ----------------------------
(***************************************************************************)
(* workers/graphaggregator.py and manifests.py: the manifests of one stack *)
(* analysis request, one after the other, each to a list of packages with  *)
(* versions.  How mercator reads a manifest is modelled in Metadata, how a *)
(* specification is resolved in Solver.                                    *)
(***************************************************************************)
EXTENDS Naturals, Sequences, FiniteSets

CONSTANT Stacks   (* sequences of manifests [filename, found, deps, key,   *)
                  (* lock]: whether mercator read metadata from it; the    *)
                  (* names in its list of dependencies, << >> or <<list>>; *)
                  (* whether it has a key _dependency_tree_lock ("no",     *)
                  (* "null" or "yes"); the packages of that lock           *)

(* A lock as the tree of its packages [name, lists].  The path of a        *)
(* package is its place in the list of the lock, or the path of the        *)
(* package that lists it with the place in that list; lists tells whether  *)
(* it has the key "dependencies".                                          *)
Above(path)  == SubSeq(path, 1, Len(path) - 1)
Beside(path) == [path EXCEPT ![Len(path)] = @ - 1]
IsLock(lock) ==
    /\ IsFiniteSet(DOMAIN lock)
    /\ DOMAIN lock \subseteq Seq(Nat \ {0}) \ {<< >>}
    /\ \A p \in DOMAIN lock :
          /\ Len(p) > 1 => Above(p) \in DOMAIN lock /\ lock[Above(p)].lists
          /\ p[Len(p)] > 1 => Beside(p) \in DOMAIN lock

(* The data_normalizers give no tree of a Godeps.json, and the packages of *)
(* a glide.lock as they are, in a list without another level.              *)
ASSUME StackAssumption ==
    \A stack \in Stacks :
        /\ DOMAIN stack = 1..Len(stack) /\ Len(stack) \in Nat
        /\ \A i \in DOMAIN stack :
              /\ IsLock(stack[i].lock)
              /\ stack[i].filename = "glide.lock" => \A p \in DOMAIN stack[i].lock : ~stack[i].lock[p].lists
              /\ stack[i].filename = "Godeps.json" => stack[i].key = "no"

VARIABLES smStack, smResult,   (* the request and the "_resolved" so far   *)
          smCalls,             (* of each call of _flatten that runs, how  *)
                               (* many of its deps it has come to          *)
          smCollect,           (* what they have collected                 *)
          smState              (* "running", "stored", "fatal", "failed"   *)

stackVars == <<smStack, smResult, smCalls, smCollect, smState>>

(* _registered_manifest_descriptors.                                       *)
Descriptors ==
    [f \in {"package.json", "npm-shrinkwrap.json", "pom.xml", "requirements.txt",
            "glide.yaml", "glide.lock", "Godeps.json"} |->
        [has_resolved_deps  |-> f \notin {"package.json", "requirements.txt", "glide.yaml"},
         has_recursive_deps |-> f \in {"npm-shrinkwrap.json", "glide.lock", "Godeps.json"}]]

Current == smStack[Len(smResult) + 1]
Left == smState = "running" /\ smCalls = << >> /\ Len(smResult) < Len(smStack)
Known == Current.found /\ Current.deps # << >> /\ Current.filename \in DOMAIN Descriptors
Exact  == Descriptors[Current.filename].has_resolved_deps
Nested == Descriptors[Current.filename].has_recursive_deps

(* The dependencies of a manifest with exact versions are strings, or the  *)
(* records of its lock, and each way to read them breaks on the other:     *)
(* x.split of a record, dep['name'] of a string.                           *)
Readable ==
    /\ Current.key # "null"                              \* 'dependencies' in None
    /\ Nested /\ Current.key = "no" => Current.deps[1] = << >>
    /\ ~Nested /\ Current.key = "yes" => DOMAIN Current.lock = {}

StackInit == /\ smStack \in Stacks /\ smResult = << >> /\ smState = "running"
             /\ smCalls = << >> /\ smCollect = << >>

(* mercator raises, finds nothing, or nothing with dependencies.           *)
NoMetadata == /\ Left /\ (~Current.found \/ Current.deps = << >>)
              /\ smState' = "fatal" /\ UNCHANGED <<smStack, smResult, smCalls, smCollect>>

(* An AttributeError of None, or one of the two above: such a failure is   *)
(* not fatal, so the task may be tried again.                              *)
Breaks == /\ Left /\ Current.found /\ Current.deps # << >>
          /\ Known => Exact /\ ~Readable
          /\ smState' = "failed" /\ UNCHANGED <<smStack, smResult, smCalls, smCollect>>

(* A list of names with versions, split one by one.                        *)
TakeResolved == /\ Left /\ Known /\ Exact /\ Readable /\ ~Nested
                /\ smResult' = Append(smResult, IF Current.key = "yes" THEN << >> ELSE Current.deps[1])
                /\ UNCHANGED <<smStack, smState, smCalls, smCollect>>

(* _flatten is called with the list of the lock ...                        *)
BeginFlatten == /\ Left /\ Known /\ Exact /\ Readable /\ Nested
                /\ smCalls' = <<0>> /\ smCollect' = << >>
                /\ UNCHANGED <<smStack, smResult, smState>>

Tree == IF Current.key = "yes" THEN Current.lock ELSE << >>
Flattening == smState = "running" /\ smCalls # << >>
NextDep == [smCalls EXCEPT ![Len(smCalls)] = @ + 1]

(* Variant: a package that was collected is not collected again, and what  *)
(* it lists neither.                                                       *)
CollectDepOnce ==
    /\ Flattening /\ NextDep \in DOMAIN Tree
    /\ smCalls' = IF \E i \in DOMAIN smCollect : smCollect[i] = Tree[NextDep].name
                  THEN NextDep ELSE Append(NextDep, 0)
    /\ smCollect' = IF \E i \in DOMAIN smCollect : smCollect[i] = Tree[NextDep].name
                    THEN smCollect ELSE Append(smCollect, Tree[NextDep].name)
    /\ UNCHANGED <<smStack, smResult, smState>>

(* ... collects the next dep and calls itself with what that one lists, if *)
(* it has the key ...                                                      *)
CollectDep == /\ Flattening /\ NextDep \in DOMAIN Tree
              /\ smCollect' = Append(smCollect, Tree[NextDep].name)
              /\ IF Tree[NextDep].lists
                 THEN smCalls' = Append(NextDep, 0) /\ UNCHANGED smState
                 ELSE smState' = "failed" /\ UNCHANGED smCalls
              /\ UNCHANGED <<smStack, smResult>>

(* ... and returns after the last of its list.                             *)
FlattenReturns == /\ Flattening /\ NextDep \notin DOMAIN Tree
                  /\ smCalls' = Above(smCalls)
                  /\ smResult' = IF Len(smCalls) = 1 THEN Append(smResult, smCollect) ELSE smResult
                  /\ UNCHANGED <<smStack, smCollect, smState>>

(* _handle_external_deps: the solver answers every dependency or raises.   *)
SolveExternal == /\ Left /\ Known /\ ~Exact
                 /\ smResult' = Append(smResult, Current.deps[1])
                 /\ UNCHANGED <<smStack, smState, smCalls, smCollect>>

SolverRaises == /\ Left /\ Known /\ ~Exact /\ Current.deps[1] # << >>
                /\ smState' = "fatal" /\ UNCHANGED <<smStack, smResult, smCalls, smCollect>>

StoreStack == /\ smState = "running" /\ Len(smResult) = Len(smStack)
              /\ smState' = "stored" /\ UNCHANGED <<smStack, smResult, smCalls, smCollect>>

StackNext == \/ NoMetadata \/ Breaks \/ TakeResolved \/ BeginFlatten \/ CollectDep \/ FlattenReturns
             \/ SolveExternal \/ SolverRaises \/ StoreStack

StackSpec == StackInit /\ [][StackNext]_stackVars
-----------------------------------------------------------------------------
PlacesOf(lock, n)     == {p \in DOMAIN lock : lock[p].name = n}
EntriesOf(list, n) == {i \in DOMAIN list : list[i] = n}

(* Every package of a lock is resolved, as often as the lock installs it:  *)
(* the same package at two places counts twice.                            *)
EveryNodeIsResolved ==
    \A i \in DOMAIN smResult :
        smStack[i].key = "yes" /\ Descriptors[smStack[i].filename].has_resolved_deps =>
            LET lock == smStack[i].lock IN
            /\ Len(smResult[i]) = Cardinality(DOMAIN lock)
            /\ \A p \in DOMAIN lock :
                  Cardinality(EntriesOf(smResult[i], lock[p].name)) = Cardinality(PlacesOf(lock, lock[p].name))

(* A stack is stored whole: no manifest without metadata, of an unknown    *)
(* name, or that breaks is dropped from a result.  No lock of glide passes *)
(* (its packages have no key "dependencies"), and no Godeps.json that has  *)
(* a dependency.                                                           *)
StoredIsWhole ==
    smState = "stored" =>
        /\ Len(smResult) = Len(smStack)
        /\ \A i \in DOMAIN smStack : smStack[i].found /\ smStack[i].filename \in DOMAIN Descriptors
        /\ \A i \in DOMAIN smStack : smStack[i].filename \in {"glide.lock", "Godeps.json"} => smResult[i] = << >>

(* A stored stack lacks no manifest and no package.                        *)
StackIsWhole == EveryNodeIsResolved /\ StoredIsWhole
=============================================================================
