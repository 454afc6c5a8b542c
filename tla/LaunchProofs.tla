----------------------------- MODULE LaunchProofs -----------------------------
(***************************************************************************)
(* Safety of Launch for any number of users, directories, packages, files  *)
(* and versions.                                                           *)
(***************************************************************************)
EXTENDS Launch, TLAPS, FiniteSetTheorems, SequenceTheorems, WellFoundedInduction

Own(d) == dir[d] = "private"
Safe(d) == dir[d] # "unsafe"
Reachable == dir["lead-up"] \notin {"absent", "unsafe"}

Hardening == {"lead-up", "make-lead-up", "secure", "make"}
Identified == {"look", "make-child", "resolved"}
Inside == {"write", "link", "unlink", "read"} \cup Identified
Below == {"namespace", "make-namespace"} \cup Inside
Hardened == {"root", "projects", "make-projects"} \cup Below

(* Who walks a list stands inside it, dry runs only look, and attempts are *)
(* left for who may still read.                                            *)
Walking(u) ==
    /\ pc[u] = "idle" => create[u] /\ cause[u] = "none"
    /\ pc[u] \in {"inspect"} \cup Hardening => create[u]
    /\ pc[u] \in {"inspect", "secure", "make"} => at[u] \in 1..Len(Tree)
    /\ pc[u] \in {"lead-up", "make-lead-up"} => at[u] = 1
    /\ pc[u] \in {"look", "make-child"} => at[u] \in 1..Len(Children)
    /\ pc[u] \in {"make-projects", "make-namespace", "write", "link", "unlink",
                  "make-child"} => create[u]
    /\ pc[u] \in {"idle"} \cup Resolving => attempt[u] < Attempts

(* What a user has seen or secured so far. *)
Seen(u) ==
    /\ pc[u] = "inspect" /\ at[u] > 1 => Safe("lead-up")
    /\ pc[u] = "inspect" => \A i \in 1..at[u] - 1 : Safe(Tree[i])
    /\ pc[u] \in Hardening => /\ Safe("lead-up")
                              /\ \A i \in 1..Len(Tree) : Safe(Tree[i])
    /\ pc[u] = "look" => \A i \in 1..at[u] - 1 : Safe(Children[i])
    /\ pc[u] = "make-child" => \A i \in 1..Len(Children) : Safe(Children[i])

Secured(u) ==
    /\ pc[u] \in {"secure", "make"} => /\ Reachable
                                       /\ \A i \in 1..at[u] - 1 : Own(Tree[i])
    /\ create[u] /\ pc[u] \in Hardened =>
          Reachable /\ \A i \in 1..Len(Tree) : Own(Tree[i])
    /\ create[u] /\ pc[u] \in Below => Own("projects")
    /\ create[u] /\ pc[u] \in Inside => Own("namespace")
    /\ create[u] /\ pc[u] \in Identified => metadata = "whole"
    /\ pc[u] = "make-child" => \A i \in 1..at[u] - 1 : Own(Children[i])
    /\ create[u] /\ pc[u] = "resolved" =>
          \A i \in 1..Len(Children) : Own(Children[i])

(* A late user never meets a race: it finds what it would have to make. *)
LateSettled ==
    /\ late # {} => Established
    /\ \A u \in late : /\ cause[u] \in {"none", "error"}
                       /\ pc[u] \notin {"idle", "make-lead-up", "make"}

StateInv ==
    /\ \A u \in User : Walking(u) /\ Seen(u) /\ Secured(u)
    /\ LateSettled

(* What stands of a launch's projection and its temporary, stage by stage. *)
Handle(u) ==
    /\ pc[u] \in {"idle", "resolved", "scratch", "failed", "launched"} \cup Resolving =>
          projection[u] = "none" /\ scratch[u] = "none"
    /\ pc[u] \in {"fill", "promote"} => projection[u] = "none"
    /\ pc[u] = "promote" => scratch[u] = "readable"
    /\ pc[u] = "tidy" => projection[u] = "readable" /\ scratch[u] = "readable"
    /\ pc[u] \in {"name", "run", "attached"} =>
          projection[u] = "readable" /\ scratch[u] = "none"
    /\ pc[u] = "cleanup" => scratch[u] = "none"

(* The stages of an installer. *)
Unpacking(c, p) == stage[c] = "unpack" /\ Current(c) = p

BeforeDocker ==
    {"idle", "resolved", "scratch", "fill", "promote", "tidy", "name", "run"} \cup Resolving

Shape(c) ==
    /\ pc[c] \in BeforeDocker => stage[c] = "off"
    /\ stage[c] = "off" => ~dry[c] /\ index[c] = 1
    /\ stage[c] \in {"off", "inspect", "open", "started"} =>
          unpacked[c] = {} /\ writing[c] = NoFile
    /\ stage[c] = "check" => writing[c] = NoFile
    /\ stage[c] \in {"open", "unpack", "check"} => ~dry[c] /\ More(c)
    /\ stage[c] = "unpack" => held[c] = wanted[c]
    /\ stage[c] = "started" => ~dry[c] /\ ~More(c)
    /\ stage[c] \in {"off", "inspect", "open", "unpack", "check"} =>
          Len(results[c]) = index[c] - 1

(* Without faults, and with every installer after version v in a home left *)
(* at v0: a file that is neither is open in somebody's hand, and a package *)
(* whose metadata was touched is being unpacked or complete.               *)
Touched(v0, v, p, f) == v0 = v \/ home[p][f] # v0

Orderly(v0, v) ==
    /\ \A p \in Package, f \in File :
          /\ home[p][f] \in {v0, v, "torn"}
          /\ home[p][f] = "torn" => \E c \in Container : Unpacking(c, p) /\ writing[c] = f
    /\ \A p \in alien : home[p]["package.json"] = v0
    /\ \A p \in Package :
          Touched(v0, v, p, "package.json") =>
              \/ \E c \in Container : Unpacking(c, p)
              \/ \A f \in File : Touched(v0, v, p, f)
    /\ \A c \in Container : stage[c] = "unpack" =>
          \A f \in unpacked[c] \cup {writing[c]} :
              f # NoFile => Touched(v0, v, Current(c), f)
    /\ \A c \in Container : ~dry[c] =>
          \A i \in 1..index[c] - 1 : Touched(v0, v, Packages[i], "package.json")

Agreed(v) == upset = 0 /\ \A c \in Container : stage[c] # "off" => wanted[c] = v

InstallInv ==
    /\ \A c \in Container : Shape(c)
    /\ \E v0 \in Version \cup {NoVersion} :
          \A v \in Version : Agreed(v) => Orderly(v0, v)

Inv == TypeOK /\ StateInv /\ (\A u \in User : Handle(u)) /\ InstallInv

-----------------------------------------------------------------------------
(* The directories, by their place in the lists.                           *)
LEMMA Bounds == Attempts \in Nat \ {0} /\ MaxFaults \in Nat
BY StateAssumption

LEMMA OneElement ==
  ASSUME NEW S, NEW x \in S
  PROVE  <<x>> \in Seq(S) /\ Len(<<x>>) = 1 /\ <<x>>[1] = x
OBVIOUS

LEMMA SeqMonotone ==
  ASSUME NEW S, NEW T, S \subseteq T
  PROVE  Seq(S) \subseteq Seq(T)
OBVIOUS

LEMMA TreeFacts ==
  /\ Len(Tree) \in Nat \ {0} /\ Len(Children) \in Nat \ {0}
  /\ Elements(Tree) = {Tree[i] : i \in 1..Len(Tree)}
  /\ Elements(Children) = {Children[i] : i \in 1..Len(Children)}
  /\ Tree[1] = "root"
<1> DEFINE S == {"root"} \cup STRING
<1>1. <<"root">> \in Seq(S) /\ Len(<<"root">>) = 1 /\ <<"root">>[1] = "root"
  BY OneElement
<1>2. Descendants \in Seq(S)
  BY StateAssumption, SeqMonotone
<1> HIDE DEF S
<1>3. Tree \in Seq(S) /\ Len(Tree) = 1 + Len(Descendants) /\ Tree[1] = "root"
  BY <1>1, <1>2, ConcatProperties DEF Tree
<1>4. Children \in Seq(STRING) /\ Len(Children) # 0
  BY StateAssumption, EmptySeq
<1> QED
  BY <1>2, <1>3, <1>4, LenProperties DEF Elements

LEMMA Lengths == Len(Tree) \in Nat \ {0} /\ Len(Children) \in Nat \ {0}
BY TreeFacts

LEMMA DirNames ==
  "lead-up" \in Dir /\ "projects" \in Dir /\ "namespace" \in Dir /\ "root" \in Dir
BY TreeFacts DEF Dir

LEMMA TreeDirs ==
  \A i \in 1..Len(Tree) :
      Tree[i] \in Dir /\ Tree[i] \notin {"lead-up", "projects", "namespace"}
<1>1. \A i \in 1..Len(Tree) : Tree[i] \in Elements(Tree)
  BY TreeFacts
<1> QED
  BY <1>1, DiskAssumption DEF Dir

LEMMA ChildDirs ==
  \A i \in 1..Len(Children) :
      /\ Children[i] \in Dir
      /\ Children[i] \notin {"lead-up", "projects", "namespace"}
      /\ \A j \in 1..Len(Tree) : Children[i] # Tree[j]
<1>1. \A i \in 1..Len(Tree) : Tree[i] \in Elements(Tree)
  BY TreeFacts
<1>2. \A i \in 1..Len(Children) : Children[i] \in Elements(Children)
  BY TreeFacts
<1> QED
  BY <1>1, <1>2, DiskAssumption DEF Dir

LEMMA DirCases ==
  \A d \in Dir : \/ d \in {"lead-up", "projects", "namespace"}
                 \/ \E i \in 1..Len(Tree) : d = Tree[i]
                 \/ \E i \in 1..Len(Children) : d = Children[i]
BY TreeFacts DEF Dir

-----------------------------------------------------------------------------
(* What the branching steps come to.                                       *)
LEMMA LookReal ==
  ASSUME NEW u, LookAtChild(u), create[u]
  PROVE  \/ /\ dir[Children[at[u]]] \notin {"private", "absent"}
            /\ Fail(u, "unsafe") /\ at' = at
         \/ /\ dir[Children[at[u]]] \in {"private", "absent"}
            /\ cause' = cause
            /\ \/ at[u] < Len(Children) /\ GotoAt(u, "look", at[u] + 1)
               \/ ~(at[u] < Len(Children)) /\ GotoAt(u, "make-child", 1)
BY DEF LookAtChild, NextChild

LEMMA LookDry ==
  ASSUME NEW u, LookAtChild(u), ~create[u]
  PROVE  \/ dir[Children[at[u]]] # "private" /\ Fail(u, "unsafe") /\ at' = at
         \/ /\ dir[Children[at[u]]] = "private"
            /\ cause' = cause
            /\ \/ at[u] < Len(Children) /\ GotoAt(u, "look", at[u] + 1)
               \/ ~(at[u] < Len(Children)) /\ GotoAt(u, "resolved", 1)
BY DEF LookAtChild, NextChild

LEMMA LookOutcomes ==
  ASSUME NEW u, LookAtChild(u)
  PROVE  \/ Fail(u, "unsafe") /\ at' = at
         \/ /\ cause' = cause
            /\ \/ at[u] < Len(Children) /\ GotoAt(u, "look", at[u] + 1)
               \/ \E s \in {"make-child", "resolved"} : GotoAt(u, s, 1)
BY LookReal, LookDry

LEMMA MakeChildOutcomes ==
  ASSUME NEW u, MakeChild(u)
  PROVE  \/ /\ dir[Children[at[u]]] \notin {"private", "absent"}
            /\ Fail(u, "unsafe") /\ at' = at /\ dir' = dir
         \/ /\ dir[Children[at[u]]] \in {"private", "absent"}
            /\ cause' = cause /\ MakeDir(Children[at[u]])
            /\ \/ at[u] < Len(Children) /\ GotoAt(u, "make-child", at[u] + 1)
               \/ ~(at[u] < Len(Children)) /\ GotoAt(u, "resolved", 1)
BY DEF MakeChild, NextChild

-----------------------------------------------------------------------------
(* Types.                                                                  *)
PcType == pc \in [User -> {"idle"} \cup Resolving \cup Launching \cup Ended]
StateData ==
    /\ at \in [User -> Nat] /\ attempt \in [User -> 0..Attempts]
    /\ dir \in [Dir -> Entry] /\ metadata \in Identity
    /\ temporary \in [User -> {"none", "empty", "whole"}]
    /\ cause \in [User -> {"none", "unsafe", "race", "metadata", "error"}]
    /\ late \subseteq User /\ faults \in 0..MaxFaults
CreateType == create \in [User -> BOOLEAN]

LEMMA TypeResolve ==
  ASSUME PcType, StateData, NEW u \in User, Walking(u), Resolve(u)
  PROVE  StateData' /\ PcType'
<1> USE DEF userVars, diskVars, stateVars, Goto
<1>1. CASE Start(u)
  <2>1. PcType'
    BY <1>1 DEF Start, GotoAt, PcType, Resolving, Launching, Ended
  <2>2. at' \in [User -> Nat]
    BY <1>1 DEF Start, GotoAt, StateData
  <2>3. late' \subseteq User
    BY <1>1 DEF Start, GotoAt, StateData
  <2> QED
    BY <1>1, <2>1, <2>2, <2>3 DEF Start, GotoAt, StateData
<1>2. CASE Inspect(u)
  <2>1. PcType'
    BY <1>2 DEF Inspect, Fail, GotoAt, PcType, Resolving, Launching, Ended
  <2>2. at' \in [User -> Nat]
    BY <1>2 DEF Inspect, Fail, GotoAt, StateData
  <2>3. cause' \in [User -> {"none", "unsafe", "race", "metadata", "error"}]
    BY <1>2 DEF Inspect, Fail, GotoAt, StateData
  <2> QED
    BY <1>2, <2>1, <2>2, <2>3 DEF Inspect, Fail, GotoAt, StateData
<1>3. CASE LeadUp(u)
  <2>1. PcType'
    BY <1>3 DEF LeadUp, PcType, Resolving, Launching, Ended
  <2> QED
    BY <1>3, <2>1 DEF LeadUp, StateData
<1>4. CASE MakeLeadUp(u)
  <2>1. PcType'
    BY <1>4 DEF MakeLeadUp, MakeDir, Fail, PcType, Resolving, Launching, Ended
  <2>2. dir' \in [Dir -> Entry]
    BY <1>4, DirNames DEF MakeLeadUp, MakeDir, Fail, StateData, Entry
  <2>3. cause' \in [User -> {"none", "unsafe", "race", "metadata", "error"}]
    BY <1>4 DEF MakeLeadUp, MakeDir, Fail, StateData
  <2> QED
    BY <1>4, <2>1, <2>2, <2>3 DEF MakeLeadUp, MakeDir, Fail, StateData
<1>5. CASE Secure(u)
  <2>1. PcType'
    BY <1>5
      DEF Secure, MakeDir, Fail, NextOfTree, GotoAt, PcType, Resolving,
          Launching, Ended
  <2>2. at' \in [User -> Nat]
    BY <1>5 DEF Secure, MakeDir, Fail, NextOfTree, GotoAt, StateData
  <2>3. dir' \in [Dir -> Entry]
    <3>1. at[u] \in 1..Len(Tree)
      BY <1>5 DEF Secure, Walking
    <3>2. dir' = dir \/ dir' = [dir EXCEPT ![Tree[at[u]]] = "private"]
      BY <1>5 DEF Secure, MakeDir, Fail, NextOfTree, GotoAt
    <3> QED
      BY <3>1, <3>2, TreeDirs DEF StateData, Entry
  <2>4. cause' \in [User -> {"none", "unsafe", "race", "metadata", "error"}]
    BY <1>5 DEF Secure, MakeDir, Fail, NextOfTree, GotoAt, StateData
  <2> QED
    BY <1>5, <2>1, <2>2, <2>3, <2>4
      DEF Secure, MakeDir, Fail, NextOfTree, GotoAt, StateData
<1>6. CASE Make(u)
  <2>1. PcType'
    BY <1>6
      DEF Make, MakeDir, Fail, NextOfTree, GotoAt, PcType, Resolving,
          Launching, Ended
  <2>2. at' \in [User -> Nat]
    <3>1. at[u] \in Nat /\ at[u] + 1 \in Nat
      BY DEF StateData
    <3>2. at' = at \/ \E n \in Nat : at' = [at EXCEPT ![u] = n]
      BY <3>1, <1>6 DEF Make, MakeDir, Fail, NextOfTree, GotoAt
    <3> QED
      BY <3>2 DEF StateData
  <2>3. dir' \in [Dir -> Entry]
    <3>1. at[u] \in 1..Len(Tree)
      BY <1>6 DEF Make, Walking
    <3>2. dir' = dir \/ dir' = [dir EXCEPT ![Tree[at[u]]] = "private"]
      BY <1>6 DEF Make, MakeDir, Fail, NextOfTree, GotoAt
    <3> QED
      BY <3>1, <3>2, TreeDirs DEF StateData, Entry
  <2>4. cause' \in [User -> {"none", "unsafe", "race", "metadata", "error"}]
    BY <1>6 DEF Make, MakeDir, Fail, NextOfTree, GotoAt, StateData
  <2> QED
    BY <1>6, <2>1, <2>2, <2>3, <2>4
      DEF Make, MakeDir, Fail, NextOfTree, GotoAt, StateData
<1>7. CASE OpenRoot(u)
  <2>1. PcType'
    BY <1>7 DEF OpenRoot, Open, Fail, GotoAt, PcType, Resolving, Launching, Ended
  <2>2. at' \in [User -> Nat]
    <3>1. at' = at \/ \E n \in {0, 1} : at' = [at EXCEPT ![u] = n]
      BY <1>7 DEF OpenRoot, Open, Fail, GotoAt
    <3> QED
      BY <3>1 DEF StateData
  <2>3. cause' \in [User -> {"none", "unsafe", "race", "metadata", "error"}]
    BY <1>7 DEF OpenRoot, Open, Fail, GotoAt, StateData
  <2> QED
    BY <1>7, <2>1, <2>2, <2>3 DEF OpenRoot, Open, Fail, GotoAt, StateData
<1>8. CASE OpenProjects(u)
  <2>1. PcType'
    BY <1>8
      DEF OpenProjects, Open, Fail, GotoAt, PcType, Resolving, Launching,
          Ended
  <2>2. at' \in [User -> Nat]
    <3>1. at' = at \/ \E n \in {0, 1} : at' = [at EXCEPT ![u] = n]
      BY <1>8 DEF OpenProjects, Open, Fail, GotoAt
    <3> QED
      BY <3>1 DEF StateData
  <2>3. cause' \in [User -> {"none", "unsafe", "race", "metadata", "error"}]
    BY <1>8 DEF OpenProjects, Open, Fail, GotoAt, StateData
  <2> QED
    BY <1>8, <2>1, <2>2, <2>3 DEF OpenProjects, Open, Fail, GotoAt, StateData
<1>9. CASE MakeProjects(u)
  <2>1. PcType'
    BY <1>9 DEF MakeProjects, MakeDir, Fail, PcType, Resolving, Launching, Ended
  <2>2. dir' \in [Dir -> Entry]
    BY <1>9, DirNames DEF MakeProjects, MakeDir, Fail, StateData, Entry
  <2>3. cause' \in [User -> {"none", "unsafe", "race", "metadata", "error"}]
    BY <1>9 DEF MakeProjects, MakeDir, Fail, StateData
  <2> QED
    BY <1>9, <2>1, <2>2, <2>3 DEF MakeProjects, MakeDir, Fail, StateData
<1>10. CASE OpenNamespace(u)
  <2>1. PcType'
    BY <1>10
      DEF OpenNamespace, Open, Fail, GotoAt, PcType, Resolving, Launching,
          Ended
  <2>2. at' \in [User -> Nat]
    <3>1. at' = at \/ \E n \in {0, 1} : at' = [at EXCEPT ![u] = n]
      BY <1>10 DEF OpenNamespace, Open, Fail, GotoAt
    <3> QED
      BY <3>1 DEF StateData
  <2>3. cause' \in [User -> {"none", "unsafe", "race", "metadata", "error"}]
    BY <1>10 DEF OpenNamespace, Open, Fail, GotoAt, StateData
  <2> QED
    BY <1>10, <2>1, <2>2, <2>3 DEF OpenNamespace, Open, Fail, GotoAt, StateData
<1>11. CASE MakeNamespace(u)
  <2>1. PcType'
    BY <1>11 DEF MakeNamespace, MakeDir, Fail, PcType, Resolving, Launching, Ended
  <2>2. dir' \in [Dir -> Entry]
    BY <1>11, DirNames DEF MakeNamespace, MakeDir, Fail, StateData, Entry
  <2>3. cause' \in [User -> {"none", "unsafe", "race", "metadata", "error"}]
    BY <1>11 DEF MakeNamespace, MakeDir, Fail, StateData
  <2> QED
    BY <1>11, <2>1, <2>2, <2>3 DEF MakeNamespace, MakeDir, Fail, StateData
<1>12. CASE WriteTemporary(u)
  <2>1. PcType'
    BY <1>12 DEF WriteTemporary, PcType, Resolving, Launching, Ended
  <2>2. temporary' \in [User -> {"none", "empty", "whole"}]
    BY <1>12 DEF WriteTemporary, StateData
  <2> QED
    BY <1>12, <2>1, <2>2 DEF WriteTemporary, StateData
<1>13. CASE LinkMetadata(u)
  <2>1. PcType'
    BY <1>13 DEF LinkMetadata, PcType, Resolving, Launching, Ended
  <2>2. metadata' \in Identity
    BY <1>13 DEF LinkMetadata, StateData, Identity
  <2> QED
    BY <1>13, <2>1, <2>2 DEF LinkMetadata, StateData
<1>14. CASE UnlinkTemporary(u)
  <2>1. PcType'
    BY <1>14 DEF UnlinkTemporary, PcType, Resolving, Launching, Ended
  <2>2. temporary' \in [User -> {"none", "empty", "whole"}]
    BY <1>14 DEF UnlinkTemporary, StateData
  <2> QED
    BY <1>14, <2>1, <2>2 DEF UnlinkTemporary, StateData
<1>15. CASE ReadMetadata(u)
  <2>1. PcType'
    BY <1>15 DEF ReadMetadata, Fail, GotoAt, PcType, Resolving, Launching, Ended
  <2>2. at' \in [User -> Nat]
    BY <1>15 DEF ReadMetadata, Fail, GotoAt, StateData
  <2>3. attempt' \in [User -> 0..Attempts]
    BY <1>15, Bounds
      DEF ReadMetadata, Fail, GotoAt, StateData, Walking, Resolving, Hardening
  <2>4. cause' \in [User -> {"none", "unsafe", "race", "metadata", "error"}]
    BY <1>15 DEF ReadMetadata, Fail, GotoAt, StateData
  <2> QED
    BY <1>15, <2>1, <2>2, <2>3, <2>4 DEF ReadMetadata, Fail, GotoAt, StateData
<1>16. CASE LookAtChild(u)
  <2>1. PcType'
    BY LookOutcomes, <1>16 DEF Fail, GotoAt, PcType, Resolving, Launching, Ended
  <2>2. at' \in [User -> Nat]
    <3>1. at[u] \in Nat /\ at[u] + 1 \in Nat
      BY DEF StateData
    <3>2. at' = at \/ \E n \in Nat : at' = [at EXCEPT ![u] = n]
      BY <3>1, LookOutcomes, <1>16 DEF Fail, GotoAt
    <3> QED
      BY <3>2 DEF StateData
  <2>3. cause' \in [User -> {"none", "unsafe", "race", "metadata", "error"}]
    BY <1>16 DEF LookAtChild, NextChild, Fail, GotoAt, StateData
  <2> QED
    BY <1>16, <2>1, <2>2, <2>3 DEF LookAtChild, NextChild, Fail, GotoAt, StateData
<1>17. CASE MakeChild(u)
  <2>1. PcType'
    BY <1>17, MakeChildOutcomes
      DEF Fail, GotoAt, MakeDir, PcType, Resolving, Launching, Ended
  <2>2. at' \in [User -> Nat]
    <3>1. at[u] \in Nat /\ at[u] + 1 \in Nat
      BY DEF StateData
    <3>2. at' = at \/ \E n \in Nat : at' = [at EXCEPT ![u] = n]
      BY <3>1, <1>17, MakeChildOutcomes DEF Fail, GotoAt, MakeDir
    <3> QED
      BY <3>2 DEF StateData
  <2>3. dir' \in [Dir -> Entry]
    <3>1. at[u] \in 1..Len(Children)
      BY <1>17 DEF MakeChild, Walking
    <3>2. dir' = dir \/ dir' = [dir EXCEPT ![Children[at[u]]] = "private"]
      BY <1>17 DEF MakeChild, NextChild, Fail, GotoAt, MakeDir
    <3> QED
      BY <3>1, <3>2, ChildDirs DEF StateData, Entry
  <2>4. cause' \in [User -> {"none", "unsafe", "race", "metadata", "error"}]
    BY <1>17 DEF MakeChild, NextChild, Fail, GotoAt, MakeDir, StateData
  <2> QED
    BY <1>17, <2>1, <2>2, <2>3, <2>4
      DEF MakeChild, NextChild, Fail, GotoAt, MakeDir, StateData
<1>18. CASE CallFails(u)
  <2>1. PcType'
    BY <1>18 DEF CallFails, Fail, Disturbed, PcType, Resolving, Launching, Ended
  <2>2. cause' \in [User -> {"none", "unsafe", "race", "metadata", "error"}]
    BY <1>18 DEF CallFails, Fail, Disturbed, StateData
  <2>3. temporary' \in [User -> {"none", "empty", "whole"}]
    BY <1>18 DEF CallFails, Fail, Disturbed, StateData
  <2>4. faults' \in 0..MaxFaults
    <3>1. faults < MaxFaults /\ faults' = faults + 1
      BY <1>18 DEF CallFails, Disturbed
    <3> QED
      BY <3>1, Bounds DEF StateData
  <2> QED
    BY <1>18, <2>1, <2>2, <2>3, <2>4 DEF CallFails, Fail, Disturbed, StateData
<1>19. CASE KilledResolving(u)
  <2>1. PcType'
    BY <1>19 DEF KilledResolving, Disturbed, PcType, Resolving, Launching, Ended
  <2>2. faults' \in 0..MaxFaults
    <3>1. faults < MaxFaults /\ faults' = faults + 1
      BY <1>19 DEF KilledResolving, Disturbed
    <3> QED
      BY <3>1, Bounds DEF StateData
  <2> QED
    BY <1>19, <2>1, <2>2 DEF KilledResolving, Disturbed, StateData
<1> QED
  BY <1>1, <1>2, <1>3, <1>4, <1>5, <1>6, <1>7, <1>8, <1>9, <1>10, <1>11,
     <1>12, <1>13, <1>14, <1>15, <1>16, <1>17, <1>18, <1>19 DEF Resolve


-----------------------------------------------------------------------------
(* What stands stays: directories only become private, the identity only   *)
(* whole, and a step changes the stage of its own user.                    *)
Grows ==
    /\ \A d \in Dir : Own(d) => Own(d)'
    /\ \A d \in Dir : Safe(d) => Safe(d)'
    /\ Reachable => Reachable'
    /\ metadata = "whole" => metadata' = "whole"

LEMMA GrowsResolve ==
  ASSUME NEW u \in User, PcType, StateData, CreateType, Walking(u), Resolve(u)
  PROVE  Grows
<1> USE DEF Grows, Own, Safe, Reachable, userVars, diskVars, stateVars, Goto
<1>1. CASE Start(u)
  BY <1>1 DEF Start
<1>2. CASE Inspect(u)
  BY <1>2 DEF Inspect
<1>3. CASE LeadUp(u)
  BY <1>3 DEF LeadUp
<1>4. CASE MakeLeadUp(u)
  <2>1. dir' = dir \/ dir' = [dir EXCEPT !["lead-up"] = "private"]
    BY <1>4 DEF MakeLeadUp, MakeDir, Fail
  <2>2. metadata' = metadata
    BY <1>4 DEF MakeLeadUp, MakeDir, Fail
  <2> QED
    BY <2>1, <2>2, DirNames DEF StateData
<1>5. CASE Secure(u)
  <2>1. dir' = dir \/ dir' = [dir EXCEPT ![Tree[at[u]]] = "private"]
    BY <1>5 DEF Secure, MakeDir, Fail, NextOfTree, GotoAt
  <2>2. metadata' = metadata
    BY <1>5 DEF Secure, MakeDir, Fail, NextOfTree, GotoAt
  <2> QED
    BY <2>1, <2>2, DirNames DEF StateData
<1>6. CASE Make(u)
  <2>1. dir' = dir \/ dir' = [dir EXCEPT ![Tree[at[u]]] = "private"]
    BY <1>6 DEF Make, MakeDir, Fail, NextOfTree, GotoAt
  <2>2. metadata' = metadata
    BY <1>6 DEF Make, MakeDir, Fail, NextOfTree, GotoAt
  <2> QED
    BY <2>1, <2>2, DirNames DEF StateData
<1>7. CASE OpenRoot(u)
  BY <1>7 DEF OpenRoot
<1>8. CASE OpenProjects(u)
  BY <1>8 DEF OpenProjects
<1>9. CASE MakeProjects(u)
  <2>1. dir' = dir \/ dir' = [dir EXCEPT !["projects"] = "private"]
    BY <1>9 DEF MakeProjects, MakeDir, Fail
  <2>2. metadata' = metadata
    BY <1>9 DEF MakeProjects, MakeDir, Fail
  <2> QED
    BY <2>1, <2>2, DirNames DEF StateData
<1>10. CASE OpenNamespace(u)
  BY <1>10 DEF OpenNamespace
<1>11. CASE MakeNamespace(u)
  <2>1. dir' = dir \/ dir' = [dir EXCEPT !["namespace"] = "private"]
    BY <1>11 DEF MakeNamespace, MakeDir, Fail
  <2>2. metadata' = metadata
    BY <1>11 DEF MakeNamespace, MakeDir, Fail
  <2> QED
    BY <2>1, <2>2, DirNames DEF StateData
<1>12. CASE WriteTemporary(u)
  BY <1>12 DEF WriteTemporary
<1>13. CASE LinkMetadata(u)
  BY <1>13 DEF LinkMetadata
<1>14. CASE UnlinkTemporary(u)
  BY <1>14 DEF UnlinkTemporary
<1>15. CASE ReadMetadata(u)
  BY <1>15 DEF ReadMetadata
<1>16. CASE LookAtChild(u)
  BY <1>16 DEF LookAtChild
<1>17. CASE MakeChild(u)
  <2>1. dir' = dir \/ dir' = [dir EXCEPT ![Children[at[u]]] = "private"]
    BY <1>17 DEF MakeChild, NextChild, Fail, GotoAt, MakeDir
  <2>2. metadata' = metadata
    BY <1>17 DEF MakeChild, NextChild, Fail, GotoAt, MakeDir
  <2> QED
    BY <2>1, <2>2, DirNames DEF StateData
<1>18. CASE CallFails(u)
  BY <1>18 DEF CallFails
<1>19. CASE KilledResolving(u)
  BY <1>19 DEF KilledResolving
<1> QED
  BY <1>1, <1>2, <1>3, <1>4, <1>5, <1>6, <1>7, <1>8, <1>9, <1>10, <1>11,
     <1>12, <1>13, <1>14, <1>15, <1>16, <1>17, <1>18, <1>19 DEF Resolve

LEMMA GrowsTree ==
  ASSUME Grows
  PROVE  /\ \A i \in 1..Len(Tree) : Own(Tree[i]) => Own(Tree[i])'
         /\ \A i \in 1..Len(Tree) : Safe(Tree[i]) => Safe(Tree[i])'
BY TreeDirs DEF Grows

LEMMA GrowsChildren ==
  ASSUME Grows
  PROVE  /\ \A i \in 1..Len(Children) : Own(Children[i]) => Own(Children[i])'
         /\ \A i \in 1..Len(Children) : Safe(Children[i]) => Safe(Children[i])'
BY ChildDirs DEF Grows

LEMMA GrowsPlaces ==
  ASSUME Grows
  PROVE  /\ Safe("lead-up") => Safe("lead-up")'
         /\ Own("projects") => Own("projects")'
         /\ Own("namespace") => Own("namespace")'
         /\ Reachable => Reachable'
         /\ metadata = "whole" => metadata' = "whole"
BY DirNames DEF Grows

LEMMA FrameResolve ==
  ASSUME NEW u \in User, PcType, StateData, CreateType, Walking(u), Resolve(u)
  PROVE  \A v \in User \ {u} :
            /\ pc'[v] = pc[v] /\ at'[v] = at[v] /\ create'[v] = create[v]
            /\ attempt'[v] = attempt[v] /\ cause'[v] = cause[v]
<1> USE DEF PcType, StateData, userVars, diskVars, stateVars, Goto
<1>1. CASE Start(u)
  BY <1>1 DEF Start, CreateType, GotoAt
<1>2. CASE Inspect(u)
  BY <1>2 DEF Inspect, Fail, GotoAt
<1>3. CASE LeadUp(u)
  BY <1>3 DEF LeadUp
<1>4. CASE MakeLeadUp(u)
  BY <1>4 DEF MakeLeadUp, MakeDir, Fail
<1>5. CASE Secure(u)
  BY <1>5 DEF Secure, MakeDir, Fail, NextOfTree, GotoAt
<1>6. CASE Make(u)
  BY <1>6 DEF Make, MakeDir, Fail, NextOfTree, GotoAt
<1>7. CASE OpenRoot(u)
  BY <1>7 DEF OpenRoot, Open, Fail, GotoAt
<1>8. CASE OpenProjects(u)
  BY <1>8 DEF OpenProjects, Open, Fail, GotoAt
<1>9. CASE MakeProjects(u)
  BY <1>9 DEF MakeProjects, MakeDir, Fail
<1>10. CASE OpenNamespace(u)
  BY <1>10 DEF OpenNamespace, Open, Fail, GotoAt
<1>11. CASE MakeNamespace(u)
  BY <1>11 DEF MakeNamespace, MakeDir, Fail
<1>12. CASE WriteTemporary(u)
  BY <1>12 DEF WriteTemporary
<1>13. CASE LinkMetadata(u)
  BY <1>13 DEF LinkMetadata
<1>14. CASE UnlinkTemporary(u)
  BY <1>14 DEF UnlinkTemporary
<1>15. CASE ReadMetadata(u)
  BY <1>15 DEF ReadMetadata, Fail, GotoAt
<1>16. CASE LookAtChild(u)
  BY <1>16 DEF LookAtChild, NextChild, Fail, GotoAt
<1>17. CASE MakeChild(u)
  BY <1>17 DEF MakeChild, NextChild, Fail, GotoAt, MakeDir
<1>18. CASE CallFails(u)
  BY <1>18 DEF CallFails, Fail, Disturbed
<1>19. CASE KilledResolving(u)
  BY <1>19 DEF KilledResolving, Disturbed
<1> QED
  BY <1>1, <1>2, <1>3, <1>4, <1>5, <1>6, <1>7, <1>8, <1>9, <1>10, <1>11,
     <1>12, <1>13, <1>14, <1>15, <1>16, <1>17, <1>18, <1>19 DEF Resolve

LEMMA OthersResolve ==
  ASSUME NEW u \in User, PcType, StateData, CreateType, Walking(u),
         Resolve(u), NEW v \in User \ {u}, Walking(v), Seen(v), Secured(v)
  PROVE  Walking(v)' /\ Seen(v)' /\ Secured(v)'
<1>1. Grows
  BY GrowsResolve
<1>2. /\ pc'[v] = pc[v] /\ at'[v] = at[v] /\ create'[v] = create[v]
      /\ attempt'[v] = attempt[v] /\ cause'[v] = cause[v]
  BY FrameResolve
<1>3. Walking(v)'
  BY <1>2 DEF Walking
<1>4. Seen(v)'
  <2>1. CASE pc[v] = "inspect"
    <3>1. at[v] \in 1..Len(Tree)
      BY <2>1 DEF Walking
    <3>2. \A i \in 1..at[v] - 1 : i \in 1..Len(Tree)
      BY <3>1, Lengths
    <3>3. \A i \in 1..at[v] - 1 : Safe(Tree[i])'
      BY <1>1, <2>1, <3>2, GrowsTree DEF Seen
    <3> QED
      BY <1>1, <1>2, <2>1, <3>3, GrowsPlaces DEF Seen, Hardening
  <2>2. CASE pc[v] \in Hardening
    BY <1>1, <1>2, <2>2, GrowsTree, GrowsPlaces DEF Seen, Hardening
  <2>3. CASE pc[v] = "look"
    <3>1. at[v] \in 1..Len(Children)
      BY <2>3 DEF Walking
    <3>2. \A i \in 1..at[v] - 1 : i \in 1..Len(Children)
      BY <3>1, Lengths
    <3>3. \A i \in 1..at[v] - 1 : Safe(Children[i])'
      BY <1>1, <2>3, <3>2, GrowsChildren DEF Seen
    <3> QED
      BY <1>2, <2>3, <3>3 DEF Seen, Hardening
  <2>4. CASE pc[v] = "make-child"
    BY <1>1, <1>2, <2>4, GrowsChildren DEF Seen, Hardening
  <2>5. CASE pc[v] \notin {"inspect", "look", "make-child"} \cup Hardening
    BY <1>2, <2>5 DEF Seen, Hardening
  <2> QED
    BY <2>1, <2>2, <2>3, <2>4, <2>5
<1>5. Secured(v)'
  <2>1. CASE pc[v] \in {"secure", "make"}
    <3>1. at[v] \in 1..Len(Tree)
      BY <2>1 DEF Walking
    <3>2. \A i \in 1..at[v] - 1 : i \in 1..Len(Tree)
      BY <3>1, Lengths
    <3>3. \A i \in 1..at[v] - 1 : Own(Tree[i])'
      BY <1>1, <2>1, <3>2, GrowsTree DEF Secured
    <3> QED
      BY <1>1, <1>2, <2>1, <3>3, GrowsPlaces
         DEF Secured, Hardened, Below, Inside, Identified
  <2>2. CASE pc[v] \in Hardened \ {"make-child", "resolved"}
    BY <1>1, <1>2, <2>2, GrowsTree, GrowsPlaces
       DEF Secured, Hardened, Below, Inside, Identified
  <2>3. CASE pc[v] = "make-child"
    <3>1. create[v] /\ at[v] \in 1..Len(Children)
      BY <2>3 DEF Walking
    <3>2. \A i \in 1..at[v] - 1 : i \in 1..Len(Children)
      BY <3>1, Lengths
    <3>3. \A i \in 1..at[v] - 1 : Own(Children[i])'
      BY <1>1, <2>3, <3>2, GrowsChildren DEF Secured
    <3>4. \A i \in 1..Len(Tree) : Own(Tree[i])'
      BY <1>1, <2>3, <3>1, GrowsTree
         DEF Secured, Hardened, Below, Inside, Identified
    <3>5. /\ Reachable' /\ Own("projects")' /\ Own("namespace")'
          /\ metadata' = "whole"
      BY <1>1, <2>3, <3>1, GrowsPlaces
         DEF Secured, Hardened, Below, Inside, Identified
    <3> QED
      BY <1>2, <2>3, <3>3, <3>4, <3>5
         DEF Secured, Hardened, Below, Inside, Identified
  <2>4. CASE pc[v] = "resolved"
    BY <1>1, <1>2, <2>4, GrowsTree, GrowsChildren, GrowsPlaces
       DEF Secured, Hardened, Below, Inside, Identified
  <2>5. CASE pc[v] \notin {"secure", "make"} \cup Hardened
    BY <1>2, <2>5 DEF Secured, Hardened, Below, Inside, Identified
  <2> QED
    BY <2>1, <2>2, <2>3, <2>4, <2>5
<1> QED
  BY <1>3, <1>4, <1>5

LEMMA GoneLocal ==
  ASSUME NEW u \in User, pc'[u] \in {"failed", "killed"}
  PROVE  Walking(u)' /\ Seen(u)' /\ Secured(u)'
BY DEF Walking, Seen, Secured, Hardening, Hardened, Below, Inside, Identified,
       Resolving

LEMMA LocalResolve ==
  ASSUME NEW u \in User, PcType, StateData, CreateType, Walking(u),
         Resolve(u), Seen(u), Secured(u), Grows
  PROVE  Walking(u)' /\ Seen(u)' /\ Secured(u)'
<1> USE DEF userVars, diskVars, stateVars, Goto
<1>1. CASE Start(u)
  <2>1. at[u] \in Nat
    BY DEF StateData
  <2>2. /\ pc[u] = "idle" /\ attempt'[u] = attempt[u]
        /\ \/ pc'[u] = "inspect" /\ at'[u] = 1 /\ create'[u] = create[u]
           \/ pc'[u] = "root" /\ at'[u] = 0 /\ ~create'[u]
    BY <1>1
      DEF Start, CreateType, GotoAt, PcType, StateData, Own, Safe, Reachable
  <2>3. CASE pc'[u] = "inspect" /\ at'[u] = 1 /\ create'[u] = create[u]
    <3>1. Walking(u)'
      BY <2>1, <2>2, <2>3, Lengths, Bounds DEF Walking, Hardening, Resolving
    <3>2. Seen(u)'
      BY <2>1, <2>2, <2>3, Lengths, GrowsTree, GrowsChildren, GrowsPlaces
        DEF Seen, Walking, Hardening
    <3>3. Secured(u)'
      BY <2>1, <2>2, <2>3, Lengths, GrowsTree, GrowsChildren, GrowsPlaces
        DEF Secured, Walking, Seen, Hardening, Hardened, Below, Inside,
            Identified
    <3> QED
      BY <3>1, <3>2, <3>3
  <2>4. CASE pc'[u] = "root" /\ at'[u] = 0 /\ ~create'[u]
    <3>1. Walking(u)'
      BY <2>1, <2>2, <2>4, Lengths, Bounds DEF Walking, Hardening, Resolving
    <3>2. Seen(u)'
      BY <2>1, <2>2, <2>4, Lengths, GrowsTree, GrowsChildren, GrowsPlaces
        DEF Seen, Walking, Hardening
    <3>3. Secured(u)'
      BY <2>1, <2>2, <2>4, Lengths, GrowsTree, GrowsChildren, GrowsPlaces
        DEF Secured, Walking, Seen, Hardening, Hardened, Below, Inside,
            Identified
    <3> QED
      BY <3>1, <3>2, <3>3
  <2> QED
    BY <2>2, <2>3, <2>4
<1>2. CASE Inspect(u)
  <2>1. at[u] \in Nat
    BY DEF StateData
  <2>2. /\ /\ pc[u] = "inspect" /\ create'[u] = create[u]
           /\ attempt'[u] = attempt[u]
        /\ \/ pc'[u] = "failed"
           \/ /\ pc'[u] = "inspect" /\ at'[u] = at[u] + 1
              /\ at[u] < Len(Tree) /\ Safe("lead-up") /\ Safe(Tree[at[u]])
           \/ /\ pc'[u] = "lead-up" /\ at'[u] = 1 /\ ~(at[u] < Len(Tree))
              /\ Safe("lead-up") /\ Safe(Tree[at[u]])
    BY <1>2 DEF Inspect, Fail, GotoAt, PcType, StateData, Own, Safe, Reachable
  <2>3. CASE pc'[u] = "failed"
    BY <2>3, GoneLocal
  <2>4. CASE /\ pc'[u] = "inspect" /\ at'[u] = at[u] + 1 /\ at[u] < Len(Tree)
            /\ Safe("lead-up") /\ Safe(Tree[at[u]])
    <3>5. at'[u] \in 1..Len(Tree)
      BY <2>1, <2>4, Lengths
    <3>1. Walking(u)'
      BY <3>5, <2>2, <2>4 DEF Walking, Hardening, Resolving
    <3>2. Seen(u)'
      BY <2>1, <2>2, <2>4, Lengths, GrowsTree, GrowsChildren, GrowsPlaces
        DEF Seen, Walking, Hardening
    <3>3. Secured(u)'
      BY <2>1, <2>2, <2>4, Lengths, GrowsTree, GrowsChildren, GrowsPlaces
        DEF Secured, Walking, Seen, Hardening, Hardened, Below, Inside,
            Identified
    <3> QED
      BY <3>1, <3>2, <3>3
  <2>5. CASE /\ pc'[u] = "lead-up" /\ at'[u] = 1 /\ ~(at[u] < Len(Tree))
            /\ Safe("lead-up") /\ Safe(Tree[at[u]])
    <3>1. Walking(u)'
      BY <2>1, <2>2, <2>5, Lengths, Bounds DEF Walking, Hardening, Resolving
    <3>2. Seen(u)'
      BY <2>1, <2>2, <2>5, Lengths, GrowsTree, GrowsChildren, GrowsPlaces
        DEF Seen, Walking, Hardening
    <3>3. Secured(u)'
      BY <2>1, <2>2, <2>5, Lengths, GrowsTree, GrowsChildren, GrowsPlaces
        DEF Secured, Walking, Seen, Hardening, Hardened, Below, Inside,
            Identified
    <3> QED
      BY <3>1, <3>2, <3>3
  <2> QED
    BY <2>2, <2>3, <2>4, <2>5
<1>3. CASE LeadUp(u)
  <2>1. at[u] \in Nat
    BY DEF StateData
  <2>2. /\ /\ pc[u] = "lead-up" /\ create'[u] = create[u]
           /\ attempt'[u] = attempt[u]
        /\ \/ pc'[u] = "make-lead-up" /\ at'[u] = 1
           \/ pc'[u] = "secure" /\ at'[u] = 1 /\ Reachable
    BY <1>3
      DEF LeadUp, PcType, StateData, Own, Safe, Reachable, Seen, Hardening,
          Walking
  <2>3. CASE pc'[u] = "make-lead-up" /\ at'[u] = 1
    <3>1. Walking(u)'
      BY <2>1, <2>2, <2>3, Lengths, Bounds DEF Walking, Hardening, Resolving
    <3>2. Seen(u)'
      BY <2>1, <2>2, <2>3, Lengths, GrowsTree, GrowsChildren, GrowsPlaces
        DEF Seen, Walking, Hardening
    <3>3. Secured(u)'
      BY <2>1, <2>2, <2>3, Lengths, GrowsTree, GrowsChildren, GrowsPlaces
        DEF Secured, Walking, Seen, Hardening, Hardened, Below, Inside,
            Identified
    <3> QED
      BY <3>1, <3>2, <3>3
  <2>4. CASE pc'[u] = "secure" /\ at'[u] = 1 /\ Reachable
    <3>1. Walking(u)'
      BY <2>1, <2>2, <2>4, Lengths, Bounds DEF Walking, Hardening, Resolving
    <3>2. Seen(u)'
      BY <2>1, <2>2, <2>4, Lengths, GrowsTree, GrowsChildren, GrowsPlaces
        DEF Seen, Walking, Hardening
    <3>3. Secured(u)'
      BY <2>1, <2>2, <2>4, Lengths, GrowsTree, GrowsChildren, GrowsPlaces
        DEF Secured, Walking, Seen, Hardening, Hardened, Below, Inside,
            Identified
    <3> QED
      BY <3>1, <3>2, <3>3
  <2> QED
    BY <2>2, <2>3, <2>4
<1>4. CASE MakeLeadUp(u)
  <2>1. at[u] \in Nat
    BY DEF StateData
  <2>2. /\ /\ pc[u] = "make-lead-up" /\ create'[u] = create[u]
           /\ attempt'[u] = attempt[u]
        /\ \/ pc'[u] = "failed"
           \/ pc'[u] = "secure" /\ at'[u] = 1 /\ Reachable'
    BY <1>4, DirNames
      DEF MakeLeadUp, MakeDir, Fail, PcType, StateData, Own, Safe, Reachable,
          Seen, Hardening, Walking
  <2>3. CASE pc'[u] = "failed"
    BY <2>3, GoneLocal
  <2>4. CASE pc'[u] = "secure" /\ at'[u] = 1 /\ Reachable'
    <3>1. Walking(u)'
      BY <2>1, <2>2, <2>4, Lengths, Bounds DEF Walking, Hardening, Resolving
    <3>2. Seen(u)'
      BY <2>1, <2>2, <2>4, Lengths, GrowsTree, GrowsChildren, GrowsPlaces
        DEF Seen, Walking, Hardening
    <3>3. Secured(u)'
      BY <2>1, <2>2, <2>4, Lengths, GrowsTree, GrowsChildren, GrowsPlaces
        DEF Secured, Walking, Seen, Hardening, Hardened, Below, Inside,
            Identified
    <3> QED
      BY <3>1, <3>2, <3>3
  <2> QED
    BY <2>2, <2>3, <2>4
<1>5. CASE Secure(u)
  <2>1. at[u] \in Nat
    BY DEF StateData
  <2>2. Tree[at[u]] \in Dir
    BY <1>5, TreeDirs DEF Secure, Walking
  <2>3. /\ /\ pc[u] = "secure" /\ create'[u] = create[u]
           /\ attempt'[u] = attempt[u]
        /\ \/ pc'[u] = "failed"
           \/ pc'[u] = "make" /\ at'[u] = at[u]
           \/ /\ pc'[u] = "secure" /\ at'[u] = at[u] + 1
              /\ at[u] < Len(Tree)
              /\ dir' = [dir EXCEPT ![Tree[at[u]]] = "private"]
           \/ /\ pc'[u] = "root" /\ at'[u] = 0 /\ ~(at[u] < Len(Tree))
              /\ dir' = [dir EXCEPT ![Tree[at[u]]] = "private"]
    BY <1>5, <2>2
      DEF Secure, MakeDir, Fail, NextOfTree, GotoAt, PcType, StateData, Own,
          Safe, Reachable
  <2>4. CASE pc'[u] = "failed"
    BY <2>4, GoneLocal
  <2>5. CASE pc'[u] = "make" /\ at'[u] = at[u]
    <3>1. Walking(u)'
      BY <2>1, <2>3, <2>5, Lengths, Bounds DEF Walking, Hardening, Resolving
    <3>2. Seen(u)'
      BY <2>1, <2>3, <2>5, Lengths, GrowsTree, GrowsChildren, GrowsPlaces
        DEF Seen, Walking, Hardening
    <3>3. Secured(u)'
      BY <2>1, <2>3, <2>5, Lengths, GrowsTree, GrowsChildren, GrowsPlaces
        DEF Secured, Walking, Seen, Hardening, Hardened, Below, Inside,
            Identified
    <3> QED
      BY <3>1, <3>2, <3>3
  <2>6. CASE /\ pc'[u] = "secure" /\ at'[u] = at[u] + 1 /\ at[u] < Len(Tree)
            /\ dir' = [dir EXCEPT ![Tree[at[u]]] = "private"]
    <3>4. \A i \in 1..at'[u] - 1 : Own(Tree[i])'
      <4>1. at[u] \in 1..Len(Tree)
        BY <1>5 DEF Secure, Walking
      <4>2. \A i \in 1..at[u] - 1 : i \in 1..Len(Tree)
        BY <4>1, Lengths
      <4>3. \A i \in 1..at[u] - 1 : Own(Tree[i])'
        BY <2>3, <4>2, GrowsTree DEF Secured
      <4>4. \A i \in 1..Len(Tree) : i = at[u] => Own(Tree[i])'
        BY <2>6, <2>2 DEF Own, StateData
      <4> QED
        BY <2>1, <4>1, <4>3, <4>4, <2>6, Lengths
    <3>5. at'[u] \in 1..Len(Tree)
      BY <2>1, <2>6, Lengths
    <3>1. Walking(u)'
      BY <3>5, <2>3, <2>6 DEF Walking, Hardening, Resolving
    <3>2. Seen(u)'
      BY <2>1, <2>3, <2>6, Lengths, GrowsTree, GrowsPlaces
        DEF Seen, Walking, Hardening
    <3>3. Secured(u)'
      BY <2>1, <2>3, <2>6, <3>4, GrowsPlaces
        DEF Secured, Walking, Seen, Hardening, Hardened, Below, Inside,
            Identified
    <3> QED
      BY <3>1, <3>2, <3>3
  <2>7. CASE /\ pc'[u] = "root" /\ at'[u] = 0 /\ ~(at[u] < Len(Tree))
            /\ dir' = [dir EXCEPT ![Tree[at[u]]] = "private"]
    <3>4. \A i \in 1..Len(Tree) : Own(Tree[i])'
      <4>1. at[u] \in 1..Len(Tree)
        BY <1>5 DEF Secure, Walking
      <4>2. \A i \in 1..at[u] - 1 : i \in 1..Len(Tree)
        BY <4>1, Lengths
      <4>3. \A i \in 1..at[u] - 1 : Own(Tree[i])'
        BY <2>3, <4>2, GrowsTree DEF Secured
      <4>4. \A i \in 1..Len(Tree) : i = at[u] => Own(Tree[i])'
        BY <2>7, <2>2 DEF Own, StateData
      <4> QED
        BY <2>1, <4>1, <4>3, <4>4, <2>7, Lengths
    <3>1. Walking(u)'
      BY <2>1, <2>3, <2>7, Lengths, Bounds DEF Walking, Hardening, Resolving
    <3>2. Seen(u)'
      BY <2>1, <2>3, <2>7, Lengths, GrowsTree, GrowsPlaces
        DEF Seen, Walking, Hardening
    <3>3. Secured(u)'
      BY <2>1, <2>3, <2>7, <3>4, GrowsPlaces
        DEF Secured, Walking, Seen, Hardening, Hardened, Below, Inside,
            Identified
    <3> QED
      BY <3>1, <3>2, <3>3
  <2> QED
    BY <2>3, <2>4, <2>5, <2>6, <2>7
<1>6. CASE Make(u)
  <2>1. at[u] \in Nat
    BY DEF StateData
  <2>2. Tree[at[u]] \in Dir
    BY <1>6, TreeDirs DEF Make, Walking
  <2>3. /\ /\ pc[u] = "make" /\ create'[u] = create[u]
           /\ attempt'[u] = attempt[u]
        /\ \/ pc'[u] = "failed"
           \/ /\ pc'[u] = "secure" /\ at'[u] = at[u] + 1
              /\ at[u] < Len(Tree)
              /\ dir' = [dir EXCEPT ![Tree[at[u]]] = "private"]
           \/ /\ pc'[u] = "root" /\ at'[u] = 0 /\ ~(at[u] < Len(Tree))
              /\ dir' = [dir EXCEPT ![Tree[at[u]]] = "private"]
    BY <1>6, <2>2
      DEF Make, MakeDir, Fail, NextOfTree, GotoAt, PcType, StateData, Own,
          Safe, Reachable
  <2>4. CASE pc'[u] = "failed"
    BY <2>4, GoneLocal
  <2>5. CASE /\ pc'[u] = "secure" /\ at'[u] = at[u] + 1 /\ at[u] < Len(Tree)
            /\ dir' = [dir EXCEPT ![Tree[at[u]]] = "private"]
    <3>4. \A i \in 1..at'[u] - 1 : Own(Tree[i])'
      <4>1. at[u] \in 1..Len(Tree)
        BY <1>6 DEF Make, Walking
      <4>2. \A i \in 1..at[u] - 1 : i \in 1..Len(Tree)
        BY <4>1, Lengths
      <4>3. \A i \in 1..at[u] - 1 : Own(Tree[i])'
        BY <2>3, <4>2, GrowsTree DEF Secured
      <4>4. \A i \in 1..Len(Tree) : i = at[u] => Own(Tree[i])'
        BY <2>5, <2>2 DEF Own, StateData
      <4> QED
        BY <2>1, <4>1, <4>3, <4>4, <2>5, Lengths
    <3>5. at'[u] \in 1..Len(Tree)
      BY <2>1, <2>5, Lengths
    <3>1. Walking(u)'
      BY <3>5, <2>3, <2>5 DEF Walking, Hardening, Resolving
    <3>2. Seen(u)'
      BY <2>1, <2>3, <2>5, Lengths, GrowsTree, GrowsPlaces
        DEF Seen, Walking, Hardening
    <3>3. Secured(u)'
      BY <2>1, <2>3, <2>5, <3>4, GrowsPlaces
        DEF Secured, Walking, Seen, Hardening, Hardened, Below, Inside,
            Identified
    <3> QED
      BY <3>1, <3>2, <3>3
  <2>6. CASE /\ pc'[u] = "root" /\ at'[u] = 0 /\ ~(at[u] < Len(Tree))
            /\ dir' = [dir EXCEPT ![Tree[at[u]]] = "private"]
    <3>4. \A i \in 1..Len(Tree) : Own(Tree[i])'
      <4>1. at[u] \in 1..Len(Tree)
        BY <1>6 DEF Make, Walking
      <4>2. \A i \in 1..at[u] - 1 : i \in 1..Len(Tree)
        BY <4>1, Lengths
      <4>3. \A i \in 1..at[u] - 1 : Own(Tree[i])'
        BY <2>3, <4>2, GrowsTree DEF Secured
      <4>4. \A i \in 1..Len(Tree) : i = at[u] => Own(Tree[i])'
        BY <2>6, <2>2 DEF Own, StateData
      <4> QED
        BY <2>1, <4>1, <4>3, <4>4, <2>6, Lengths
    <3>1. Walking(u)'
      BY <2>1, <2>3, <2>6, Lengths, Bounds DEF Walking, Hardening, Resolving
    <3>2. Seen(u)'
      BY <2>1, <2>3, <2>6, Lengths, GrowsTree, GrowsPlaces
        DEF Seen, Walking, Hardening
    <3>3. Secured(u)'
      BY <2>1, <2>3, <2>6, <3>4, GrowsPlaces
        DEF Secured, Walking, Seen, Hardening, Hardened, Below, Inside,
            Identified
    <3> QED
      BY <3>1, <3>2, <3>3
  <2> QED
    BY <2>3, <2>4, <2>5, <2>6
<1>7. CASE OpenRoot(u)
  <2>1. at[u] \in Nat
    BY DEF StateData
  <2>2. /\ /\ pc[u] = "root" /\ create'[u] = create[u]
           /\ attempt'[u] = attempt[u]
        /\ \/ pc'[u] = "failed"
           \/ pc'[u] = "projects"
           \/ pc'[u] = "resolved" /\ ~create[u]
    BY <1>7
      DEF OpenRoot, Open, Fail, GotoAt, PcType, StateData, Own, Safe,
          Reachable
  <2>3. CASE pc'[u] = "failed"
    BY <2>3, GoneLocal
  <2>4. CASE pc'[u] = "projects"
    <3>1. Walking(u)'
      BY <2>1, <2>2, <2>4, Lengths, Bounds DEF Walking, Hardening, Resolving
    <3>2. Seen(u)'
      BY <2>1, <2>2, <2>4, Lengths, GrowsTree, GrowsChildren, GrowsPlaces
        DEF Seen, Walking, Hardening
    <3>3. Secured(u)'
      BY <2>1, <2>2, <2>4, Lengths, GrowsTree, GrowsChildren, GrowsPlaces
        DEF Secured, Walking, Seen, Hardening, Hardened, Below, Inside,
            Identified
    <3> QED
      BY <3>1, <3>2, <3>3
  <2>5. CASE pc'[u] = "resolved" /\ ~create[u]
    <3>1. Walking(u)'
      BY <2>1, <2>2, <2>5, Lengths, Bounds DEF Walking, Hardening, Resolving
    <3>2. Seen(u)'
      BY <2>1, <2>2, <2>5, Lengths, GrowsTree, GrowsChildren, GrowsPlaces
        DEF Seen, Walking, Hardening
    <3>3. Secured(u)'
      BY <2>1, <2>2, <2>5, Lengths, GrowsTree, GrowsChildren, GrowsPlaces
        DEF Secured, Walking, Seen, Hardening, Hardened, Below, Inside,
            Identified
    <3> QED
      BY <3>1, <3>2, <3>3
  <2> QED
    BY <2>2, <2>3, <2>4, <2>5
<1>8. CASE OpenProjects(u)
  <2>1. at[u] \in Nat
    BY DEF StateData
  <2>2. /\ /\ pc[u] = "projects" /\ create'[u] = create[u]
           /\ attempt'[u] = attempt[u]
        /\ \/ pc'[u] = "failed"
           \/ pc'[u] = "namespace" /\ Own("projects")
           \/ pc'[u] = "resolved" /\ ~create[u]
           \/ pc'[u] = "make-projects" /\ create[u]
    BY <1>8
      DEF OpenProjects, Open, Fail, GotoAt, PcType, StateData, Own, Safe,
          Reachable
  <2>3. CASE pc'[u] = "failed"
    BY <2>3, GoneLocal
  <2>4. CASE pc'[u] = "namespace" /\ Own("projects")
    <3>1. Walking(u)'
      BY <2>1, <2>2, <2>4, Lengths, Bounds DEF Walking, Hardening, Resolving
    <3>2. Seen(u)'
      BY <2>1, <2>2, <2>4, Lengths, GrowsTree, GrowsChildren, GrowsPlaces
        DEF Seen, Walking, Hardening
    <3>3. Secured(u)'
      BY <2>1, <2>2, <2>4, Lengths, GrowsTree, GrowsChildren, GrowsPlaces
        DEF Secured, Walking, Seen, Hardening, Hardened, Below, Inside,
            Identified
    <3> QED
      BY <3>1, <3>2, <3>3
  <2>5. CASE pc'[u] = "resolved" /\ ~create[u]
    <3>1. Walking(u)'
      BY <2>1, <2>2, <2>5, Lengths, Bounds DEF Walking, Hardening, Resolving
    <3>2. Seen(u)'
      BY <2>1, <2>2, <2>5, Lengths, GrowsTree, GrowsChildren, GrowsPlaces
        DEF Seen, Walking, Hardening
    <3>3. Secured(u)'
      BY <2>1, <2>2, <2>5, Lengths, GrowsTree, GrowsChildren, GrowsPlaces
        DEF Secured, Walking, Seen, Hardening, Hardened, Below, Inside,
            Identified
    <3> QED
      BY <3>1, <3>2, <3>3
  <2>6. CASE pc'[u] = "make-projects" /\ create[u]
    <3>1. Walking(u)'
      BY <2>1, <2>2, <2>6, Lengths, Bounds DEF Walking, Hardening, Resolving
    <3>2. Seen(u)'
      BY <2>1, <2>2, <2>6, Lengths, GrowsTree, GrowsChildren, GrowsPlaces
        DEF Seen, Walking, Hardening
    <3>3. Secured(u)'
      BY <2>1, <2>2, <2>6, Lengths, GrowsTree, GrowsChildren, GrowsPlaces
        DEF Secured, Walking, Seen, Hardening, Hardened, Below, Inside,
            Identified
    <3> QED
      BY <3>1, <3>2, <3>3
  <2> QED
    BY <2>2, <2>3, <2>4, <2>5, <2>6
<1>9. CASE MakeProjects(u)
  <2>1. at[u] \in Nat
    BY DEF StateData
  <2>2. /\ /\ pc[u] = "make-projects" /\ create'[u] = create[u]
           /\ attempt'[u] = attempt[u]
        /\ \/ pc'[u] = "failed"
           \/ pc'[u] = "namespace" /\ Own("projects")'
    BY <1>9, DirNames
      DEF MakeProjects, MakeDir, Fail, PcType, StateData, Own, Safe, Reachable
  <2>3. CASE pc'[u] = "failed"
    BY <2>3, GoneLocal
  <2>4. CASE pc'[u] = "namespace" /\ Own("projects")'
    <3>1. Walking(u)'
      BY <2>1, <2>2, <2>4, Lengths, Bounds DEF Walking, Hardening, Resolving
    <3>2. Seen(u)'
      BY <2>1, <2>2, <2>4, Lengths, GrowsTree, GrowsChildren, GrowsPlaces
        DEF Seen, Walking, Hardening
    <3>3. Secured(u)'
      BY <2>1, <2>2, <2>4, Lengths, GrowsTree, GrowsChildren, GrowsPlaces
        DEF Secured, Walking, Seen, Hardening, Hardened, Below, Inside,
            Identified
    <3> QED
      BY <3>1, <3>2, <3>3
  <2> QED
    BY <2>2, <2>3, <2>4
<1>10. CASE OpenNamespace(u)
  <2>1. at[u] \in Nat
    BY DEF StateData
  <2>2. /\ /\ pc[u] = "namespace" /\ create'[u] = create[u]
           /\ attempt'[u] = attempt[u]
        /\ \/ pc'[u] = "failed"
           \/ pc'[u] = "read" /\ Own("namespace")
           \/ pc'[u] = "resolved" /\ ~create[u]
           \/ pc'[u] = "make-namespace" /\ create[u]
    BY <1>10
      DEF OpenNamespace, Open, Fail, GotoAt, PcType, StateData, Own, Safe,
          Reachable
  <2>3. CASE pc'[u] = "failed"
    BY <2>3, GoneLocal
  <2>4. CASE pc'[u] = "read" /\ Own("namespace")
    <3>1. Walking(u)'
      BY <2>1, <2>2, <2>4, Lengths, Bounds DEF Walking, Hardening, Resolving
    <3>2. Seen(u)'
      BY <2>1, <2>2, <2>4, Lengths, GrowsTree, GrowsChildren, GrowsPlaces
        DEF Seen, Walking, Hardening
    <3>3. Secured(u)'
      BY <2>1, <2>2, <2>4, Lengths, GrowsTree, GrowsChildren, GrowsPlaces
        DEF Secured, Walking, Seen, Hardening, Hardened, Below, Inside,
            Identified
    <3> QED
      BY <3>1, <3>2, <3>3
  <2>5. CASE pc'[u] = "resolved" /\ ~create[u]
    <3>1. Walking(u)'
      BY <2>1, <2>2, <2>5, Lengths, Bounds DEF Walking, Hardening, Resolving
    <3>2. Seen(u)'
      BY <2>1, <2>2, <2>5, Lengths, GrowsTree, GrowsChildren, GrowsPlaces
        DEF Seen, Walking, Hardening
    <3>3. Secured(u)'
      BY <2>1, <2>2, <2>5, Lengths, GrowsTree, GrowsChildren, GrowsPlaces
        DEF Secured, Walking, Seen, Hardening, Hardened, Below, Inside,
            Identified
    <3> QED
      BY <3>1, <3>2, <3>3
  <2>6. CASE pc'[u] = "make-namespace" /\ create[u]
    <3>1. Walking(u)'
      BY <2>1, <2>2, <2>6, Lengths, Bounds DEF Walking, Hardening, Resolving
    <3>2. Seen(u)'
      BY <2>1, <2>2, <2>6, Lengths, GrowsTree, GrowsChildren, GrowsPlaces
        DEF Seen, Walking, Hardening
    <3>3. Secured(u)'
      BY <2>1, <2>2, <2>6, Lengths, GrowsTree, GrowsChildren, GrowsPlaces
        DEF Secured, Walking, Seen, Hardening, Hardened, Below, Inside,
            Identified
    <3> QED
      BY <3>1, <3>2, <3>3
  <2> QED
    BY <2>2, <2>3, <2>4, <2>5, <2>6
<1>11. CASE MakeNamespace(u)
  <2>1. at[u] \in Nat
    BY DEF StateData
  <2>2. /\ /\ pc[u] = "make-namespace" /\ create'[u] = create[u]
           /\ attempt'[u] = attempt[u]
        /\ \/ pc'[u] = "failed"
           \/ pc'[u] = "write" /\ Own("namespace")'
           \/ pc'[u] = "read" /\ Own("namespace")
    BY <1>11, DirNames
      DEF MakeNamespace, MakeDir, Fail, PcType, StateData, Own, Safe,
          Reachable
  <2>3. CASE pc'[u] = "failed"
    BY <2>3, GoneLocal
  <2>4. CASE pc'[u] = "write" /\ Own("namespace")'
    <3>1. Walking(u)'
      BY <2>1, <2>2, <2>4, Lengths, Bounds DEF Walking, Hardening, Resolving
    <3>2. Seen(u)'
      BY <2>1, <2>2, <2>4, Lengths, GrowsTree, GrowsChildren, GrowsPlaces
        DEF Seen, Walking, Hardening
    <3>3. Secured(u)'
      BY <2>1, <2>2, <2>4, Lengths, GrowsTree, GrowsChildren, GrowsPlaces
        DEF Secured, Walking, Seen, Hardening, Hardened, Below, Inside,
            Identified
    <3> QED
      BY <3>1, <3>2, <3>3
  <2>5. CASE pc'[u] = "read" /\ Own("namespace")
    <3>1. Walking(u)'
      BY <2>1, <2>2, <2>5, Lengths, Bounds DEF Walking, Hardening, Resolving
    <3>2. Seen(u)'
      BY <2>1, <2>2, <2>5, Lengths, GrowsTree, GrowsChildren, GrowsPlaces
        DEF Seen, Walking, Hardening
    <3>3. Secured(u)'
      BY <2>1, <2>2, <2>5, Lengths, GrowsTree, GrowsChildren, GrowsPlaces
        DEF Secured, Walking, Seen, Hardening, Hardened, Below, Inside,
            Identified
    <3> QED
      BY <3>1, <3>2, <3>3
  <2> QED
    BY <2>2, <2>3, <2>4, <2>5
<1>12. CASE WriteTemporary(u)
  <2>1. at[u] \in Nat
    BY DEF StateData
  <2>2. /\ /\ pc[u] = "write" /\ create'[u] = create[u]
           /\ attempt'[u] = attempt[u]
        /\ \/ pc'[u] = "write"
           \/ pc'[u] = "link"
    BY <1>12 DEF WriteTemporary, PcType, StateData, Own, Safe, Reachable
  <2>3. CASE pc'[u] = "write"
    <3>1. Walking(u)'
      BY <2>1, <2>2, <2>3, Lengths, Bounds DEF Walking, Hardening, Resolving
    <3>2. Seen(u)'
      BY <2>1, <2>2, <2>3, Lengths, GrowsTree, GrowsChildren, GrowsPlaces
        DEF Seen, Walking, Hardening
    <3>3. Secured(u)'
      BY <2>1, <2>2, <2>3, Lengths, GrowsTree, GrowsChildren, GrowsPlaces
        DEF Secured, Walking, Seen, Hardening, Hardened, Below, Inside,
            Identified
    <3> QED
      BY <3>1, <3>2, <3>3
  <2>4. CASE pc'[u] = "link"
    <3>1. Walking(u)'
      BY <2>1, <2>2, <2>4, Lengths, Bounds DEF Walking, Hardening, Resolving
    <3>2. Seen(u)'
      BY <2>1, <2>2, <2>4, Lengths, GrowsTree, GrowsChildren, GrowsPlaces
        DEF Seen, Walking, Hardening
    <3>3. Secured(u)'
      BY <2>1, <2>2, <2>4, Lengths, GrowsTree, GrowsChildren, GrowsPlaces
        DEF Secured, Walking, Seen, Hardening, Hardened, Below, Inside,
            Identified
    <3> QED
      BY <3>1, <3>2, <3>3
  <2> QED
    BY <2>2, <2>3, <2>4
<1>13. CASE LinkMetadata(u)
  <2>1. at[u] \in Nat
    BY DEF StateData
  <2>2. /\ /\ pc[u] = "link" /\ create'[u] = create[u]
           /\ attempt'[u] = attempt[u]
        /\ pc'[u] = "unlink"
    BY <1>13 DEF LinkMetadata, PcType, StateData, Own, Safe, Reachable
  <2>3. CASE pc'[u] = "unlink"
    <3>1. Walking(u)'
      BY <2>1, <2>2, <2>3, Lengths, Bounds DEF Walking, Hardening, Resolving
    <3>2. Seen(u)'
      BY <2>1, <2>2, <2>3, Lengths, GrowsTree, GrowsChildren, GrowsPlaces
        DEF Seen, Walking, Hardening
    <3>3. Secured(u)'
      BY <2>1, <2>2, <2>3, Lengths, GrowsTree, GrowsChildren, GrowsPlaces
        DEF Secured, Walking, Seen, Hardening, Hardened, Below, Inside,
            Identified
    <3> QED
      BY <3>1, <3>2, <3>3
  <2> QED
    BY <2>2, <2>3
<1>14. CASE UnlinkTemporary(u)
  <2>1. at[u] \in Nat
    BY DEF StateData
  <2>2. /\ /\ pc[u] = "unlink" /\ create'[u] = create[u]
           /\ attempt'[u] = attempt[u]
        /\ pc'[u] = "read"
    BY <1>14 DEF UnlinkTemporary, PcType, StateData, Own, Safe, Reachable
  <2>3. CASE pc'[u] = "read"
    <3>1. Walking(u)'
      BY <2>1, <2>2, <2>3, Lengths, Bounds DEF Walking, Hardening, Resolving
    <3>2. Seen(u)'
      BY <2>1, <2>2, <2>3, Lengths, GrowsTree, GrowsChildren, GrowsPlaces
        DEF Seen, Walking, Hardening
    <3>3. Secured(u)'
      BY <2>1, <2>2, <2>3, Lengths, GrowsTree, GrowsChildren, GrowsPlaces
        DEF Secured, Walking, Seen, Hardening, Hardened, Below, Inside,
            Identified
    <3> QED
      BY <3>1, <3>2, <3>3
  <2> QED
    BY <2>2, <2>3
<1>15. CASE ReadMetadata(u)
  <2>1. at[u] \in Nat
    BY DEF StateData
  <2>2. /\ pc[u] = "read" /\ create'[u] = create[u]
        /\ \/ pc'[u] = "failed"
           \/ /\ pc'[u] = "look" /\ at'[u] = 1 /\ metadata = "whole"
              /\ attempt'[u] = attempt[u]
           \/ /\ pc'[u] = "read" /\ attempt'[u] = attempt[u] + 1
              /\ attempt'[u] # Attempts
    BY <1>15
      DEF ReadMetadata, Fail, GotoAt, PcType, StateData, Own, Safe, Reachable
  <2>3. CASE pc'[u] = "failed"
    BY <2>3, GoneLocal
  <2>4. CASE /\ pc'[u] = "look" /\ at'[u] = 1 /\ metadata = "whole"
            /\ attempt'[u] = attempt[u]
    <3>1. Walking(u)'
      BY <2>1, <2>2, <2>4, Lengths, Bounds DEF Walking, Hardening, Resolving
    <3>2. Seen(u)'
      BY <2>1, <2>2, <2>4, Lengths, GrowsTree, GrowsChildren, GrowsPlaces
        DEF Seen, Walking, Hardening
    <3>3. Secured(u)'
      BY <2>1, <2>2, <2>4, Lengths, GrowsTree, GrowsChildren, GrowsPlaces
        DEF Secured, Walking, Seen, Hardening, Hardened, Below, Inside,
            Identified
    <3> QED
      BY <3>1, <3>2, <3>3
  <2>5. CASE /\ pc'[u] = "read" /\ attempt'[u] = attempt[u] + 1
            /\ attempt'[u] # Attempts
    <3>5. attempt[u] \in Nat /\ attempt[u] < Attempts
      BY <2>2, Bounds DEF StateData, Walking, Resolving
    <3>6. attempt'[u] < Attempts
      BY <2>5, <3>5, Bounds
    <3>1. Walking(u)'
      BY <3>6, <2>2, <2>5 DEF Walking, Hardening, Resolving
    <3>2. Seen(u)'
      BY <2>1, <2>2, <2>5, Lengths, GrowsTree, GrowsChildren, GrowsPlaces
        DEF Seen, Walking, Hardening
    <3>3. Secured(u)'
      BY <2>1, <2>2, <2>5, Lengths, GrowsTree, GrowsChildren, GrowsPlaces
        DEF Secured, Walking, Seen, Hardening, Hardened, Below, Inside,
            Identified
    <3> QED
      BY <3>1, <3>2, <3>3
  <2> QED
    BY <2>2, <2>3, <2>4, <2>5
<1>16. CASE LookAtChild(u)
  <2>1. at[u] \in Nat
    BY DEF StateData
  <2>2. /\ /\ pc[u] = "look" /\ create'[u] = create[u]
           /\ attempt'[u] = attempt[u]
        /\ \/ pc'[u] = "failed"
           \/ /\ pc'[u] = "look" /\ at'[u] = at[u] + 1
              /\ at[u] < Len(Children) /\ Safe(Children[at[u]])
           \/ /\ pc'[u] = "make-child" /\ at'[u] = 1
              /\ ~(at[u] < Len(Children)) /\ create[u]
              /\ Safe(Children[at[u]])
           \/ pc'[u] = "resolved" /\ ~(at[u] < Len(Children)) /\ ~create[u]
    BY <1>16
      DEF LookAtChild, NextChild, Fail, GotoAt, PcType, StateData, Own, Safe,
          Reachable
  <2>3. CASE pc'[u] = "failed"
    BY <2>3, GoneLocal
  <2>4. CASE /\ pc'[u] = "look" /\ at'[u] = at[u] + 1
            /\ at[u] < Len(Children) /\ Safe(Children[at[u]])
    <3>4. \A i \in 1..at'[u] - 1 : Safe(Children[i])'
      <4>1. at[u] \in 1..Len(Children)
        BY <1>16 DEF LookAtChild, Walking
      <4>2. \A i \in 1..at[u] - 1 : i \in 1..Len(Children)
        BY <4>1, Lengths
      <4>3. \A i \in 1..at[u] - 1 : Safe(Children[i])'
        BY <2>2, <4>2, GrowsChildren DEF Seen
      <4>4. \A i \in 1..Len(Children) : i = at[u] => Safe(Children[i])'
        BY <2>4, GrowsChildren
      <4> QED
        BY <2>1, <4>1, <4>3, <4>4, <2>4, Lengths
    <3>5. at'[u] \in 1..Len(Children)
      BY <2>1, <2>4, Lengths
    <3>1. Walking(u)'
      BY <3>5, <2>2, <2>4 DEF Walking, Hardening, Resolving
    <3>2. Seen(u)'
      BY <2>1, <2>2, <2>4, <3>4 DEF Seen, Walking, Hardening
    <3>3. Secured(u)'
      BY <2>1, <2>2, <2>4, GrowsTree, GrowsPlaces
        DEF Secured, Walking, Seen, Hardening, Hardened, Below, Inside,
            Identified
    <3> QED
      BY <3>1, <3>2, <3>3
  <2>5. CASE /\ pc'[u] = "make-child" /\ at'[u] = 1
            /\ ~(at[u] < Len(Children)) /\ create[u]
            /\ Safe(Children[at[u]])
    <3>4. \A i \in 1..Len(Children) : Safe(Children[i])'
      <4>1. at[u] \in 1..Len(Children)
        BY <1>16 DEF LookAtChild, Walking
      <4>2. \A i \in 1..at[u] - 1 : i \in 1..Len(Children)
        BY <4>1, Lengths
      <4>3. \A i \in 1..at[u] - 1 : Safe(Children[i])'
        BY <2>2, <4>2, GrowsChildren DEF Seen
      <4>4. \A i \in 1..Len(Children) : i = at[u] => Safe(Children[i])'
        BY <2>5, GrowsChildren
      <4> QED
        BY <2>1, <4>1, <4>3, <4>4, <2>5, Lengths
    <3>5. at'[u] \in 1..Len(Children)
      BY <2>1, <2>5, Lengths
    <3>6. 1..at'[u] - 1 = {}
      BY <2>1, <2>5, Lengths
    <3>1. Walking(u)'
      BY <3>5, <2>2, <2>5 DEF Walking, Hardening, Resolving
    <3>2. Seen(u)'
      BY <2>1, <2>2, <2>5, <3>4 DEF Seen, Walking, Hardening
    <3>3. Secured(u)'
      BY <2>1, <2>2, <2>5, GrowsTree, GrowsPlaces, <3>6
        DEF Secured, Walking, Seen, Hardening, Hardened, Below, Inside,
            Identified
    <3> QED
      BY <3>1, <3>2, <3>3
  <2>6. CASE pc'[u] = "resolved" /\ ~(at[u] < Len(Children)) /\ ~create[u]
    <3>1. Walking(u)'
      BY <2>1, <2>2, <2>6, Lengths, Bounds DEF Walking, Hardening, Resolving
    <3>2. Seen(u)'
      BY <2>1, <2>2, <2>6, Lengths, GrowsTree, GrowsChildren, GrowsPlaces
        DEF Seen, Walking, Hardening
    <3>3. Secured(u)'
      BY <2>1, <2>2, <2>6, Lengths, GrowsTree, GrowsChildren, GrowsPlaces
        DEF Secured, Walking, Seen, Hardening, Hardened, Below, Inside,
            Identified
    <3> QED
      BY <3>1, <3>2, <3>3
  <2> QED
    BY <2>2, <2>3, <2>4, <2>5, <2>6
<1>17. CASE MakeChild(u)
  <2>1. at[u] \in Nat
    BY DEF StateData
  <2>2. Children[at[u]] \in Dir
    BY <1>17, ChildDirs DEF MakeChild, Walking
  <2>3. /\ /\ pc[u] = "make-child" /\ create'[u] = create[u]
           /\ attempt'[u] = attempt[u]
        /\ \/ pc'[u] = "failed"
           \/ /\ pc'[u] = "make-child" /\ at'[u] = at[u] + 1
              /\ at[u] < Len(Children)
              /\ dir' = [dir EXCEPT ![Children[at[u]]] = "private"]
           \/ /\ pc'[u] = "resolved" /\ ~(at[u] < Len(Children))
              /\ dir' = [dir EXCEPT ![Children[at[u]]] = "private"]
    BY <1>17, <2>2
      DEF MakeChild, NextChild, Fail, GotoAt, MakeDir, PcType, StateData, Own,
          Safe, Reachable
  <2>4. CASE pc'[u] = "failed"
    BY <2>4, GoneLocal
  <2>5. CASE /\ pc'[u] = "make-child" /\ at'[u] = at[u] + 1
            /\ at[u] < Len(Children)
            /\ dir' = [dir EXCEPT ![Children[at[u]]] = "private"]
    <3>4. \A i \in 1..at'[u] - 1 : Own(Children[i])'
      <4>1. at[u] \in 1..Len(Children)
        BY <1>17 DEF MakeChild, Walking
      <4>2. \A i \in 1..at[u] - 1 : i \in 1..Len(Children)
        BY <4>1, Lengths
      <4>3. \A i \in 1..at[u] - 1 : Own(Children[i])'
        BY <2>3, <4>2, GrowsChildren DEF Secured
      <4>4. \A i \in 1..Len(Children) : i = at[u] => Own(Children[i])'
        BY <2>5, <2>2 DEF Own, StateData
      <4> QED
        BY <2>1, <4>1, <4>3, <4>4, <2>5, Lengths
    <3>5. at'[u] \in 1..Len(Children)
      BY <2>1, <2>5, Lengths
    <3>1. Walking(u)'
      BY <3>5, <2>3, <2>5 DEF Walking, Hardening, Resolving
    <3>2. Seen(u)'
      BY <2>1, <2>3, <2>5, Lengths, GrowsChildren DEF Seen, Walking, Hardening
    <3>3. Secured(u)'
      BY <2>1, <2>3, <2>5, <3>4, GrowsTree, GrowsPlaces
        DEF Secured, Walking, Seen, Hardening, Hardened, Below, Inside,
            Identified
    <3> QED
      BY <3>1, <3>2, <3>3
  <2>6. CASE /\ pc'[u] = "resolved" /\ ~(at[u] < Len(Children))
            /\ dir' = [dir EXCEPT ![Children[at[u]]] = "private"]
    <3>4. \A i \in 1..Len(Children) : Own(Children[i])'
      <4>1. at[u] \in 1..Len(Children)
        BY <1>17 DEF MakeChild, Walking
      <4>2. \A i \in 1..at[u] - 1 : i \in 1..Len(Children)
        BY <4>1, Lengths
      <4>3. \A i \in 1..at[u] - 1 : Own(Children[i])'
        BY <2>3, <4>2, GrowsChildren DEF Secured
      <4>4. \A i \in 1..Len(Children) : i = at[u] => Own(Children[i])'
        BY <2>6, <2>2 DEF Own, StateData
      <4> QED
        BY <2>1, <4>1, <4>3, <4>4, <2>6, Lengths
    <3>1. Walking(u)'
      BY <2>1, <2>3, <2>6, Lengths, Bounds DEF Walking, Hardening, Resolving
    <3>2. Seen(u)'
      BY <2>1, <2>3, <2>6, Lengths, GrowsChildren DEF Seen, Walking, Hardening
    <3>3. Secured(u)'
      BY <2>1, <2>3, <2>6, <3>4, GrowsTree, GrowsPlaces
        DEF Secured, Walking, Seen, Hardening, Hardened, Below, Inside,
            Identified
    <3> QED
      BY <3>1, <3>2, <3>3
  <2> QED
    BY <2>3, <2>4, <2>5, <2>6
<1>18. CASE CallFails(u)
  <2>1. at[u] \in Nat
    BY DEF StateData
  <2>2. /\ create'[u] = create[u] /\ attempt'[u] = attempt[u]
        /\ pc'[u] = "failed"
    BY <1>18
      DEF CallFails, Fail, Disturbed, PcType, StateData, Own, Safe, Reachable
  <2>3. CASE pc'[u] = "failed"
    BY <2>3, GoneLocal
  <2> QED
    BY <2>2, <2>3
<1>19. CASE KilledResolving(u)
  <2>1. at[u] \in Nat
    BY DEF StateData
  <2>2. /\ create'[u] = create[u] /\ attempt'[u] = attempt[u]
        /\ pc'[u] = "killed"
    BY <1>19
      DEF KilledResolving, Disturbed, PcType, StateData, Own, Safe, Reachable
  <2>3. CASE pc'[u] = "killed"
    BY <2>3, GoneLocal
  <2> QED
    BY <2>2, <2>3
<1> QED
  BY <1>1, <1>2, <1>3, <1>4, <1>5, <1>6, <1>7, <1>8, <1>9, <1>10, <1>11,
     <1>12, <1>13, <1>14, <1>15, <1>16, <1>17, <1>18, <1>19 DEF Resolve

-----------------------------------------------------------------------------
(* Once everything is in place it stays, and no later user is turned away. *)
LEMMA EstablishedStays ==
  ASSUME Grows, Established
  PROVE  Established'
<1>1. \A d \in Dir \ {"lead-up"} : Own(d)
  BY DEF Established, Own
<1>2. \A d \in Dir \ {"lead-up"} : Own(d)'
  BY <1>1 DEF Grows
<1>3. Reachable' /\ metadata' = "whole"
  BY DEF Grows, Established, Reachable
<1> QED
  BY <1>2, <1>3 DEF Established, Own, Reachable

LEMMA LateLocal ==
  ASSUME NEW u \in User, PcType, StateData, Walking(u), Resolve(u),
         Established, cause[u] \in {"none", "error"},
         pc[u] \notin {"idle", "make-lead-up", "make"}
  PROVE  cause'[u] \in {"none", "error"} /\ pc'[u] \notin {"idle", "make-lead-up", "make"}
<1> USE DEF userVars, diskVars, stateVars, Goto
<1>1. CASE Start(u)
  BY <1>1 DEF Start
<1>2. CASE Inspect(u)
  <2>1. dir[Tree[at[u]]] = "private"
    BY <1>2, TreeDirs DEF Inspect, Walking, Established
  <2>2. dir["lead-up"] \notin {"absent", "unsafe"}
    BY DEF Established
  <2> QED
    BY <1>2, <2>1, <2>2 DEF Inspect, Fail, GotoAt, PcType, StateData
<1>3. CASE LeadUp(u)
  BY <1>3, DirNames DEF LeadUp, PcType, StateData, Established
<1>4. CASE MakeLeadUp(u)
  BY <1>4 DEF MakeLeadUp
<1>5. CASE Secure(u)
  <2>1. dir[Tree[at[u]]] = "private"
    BY <1>5, TreeDirs DEF Secure, Walking, Established
  <2>2. dir["lead-up"] \notin {"absent", "unsafe"}
    BY DEF Established
  <2> QED
    BY <1>5, <2>1, <2>2
      DEF Secure, MakeDir, Fail, NextOfTree, GotoAt, PcType, StateData
<1>6. CASE Make(u)
  BY <1>6 DEF Make
<1>7. CASE OpenRoot(u)
  BY <1>7, DirNames
    DEF OpenRoot, Open, Fail, GotoAt, PcType, StateData, Established
<1>8. CASE OpenProjects(u)
  BY <1>8, DirNames
    DEF OpenProjects, Open, Fail, GotoAt, PcType, StateData, Established
<1>9. CASE MakeProjects(u)
  BY <1>9, DirNames
    DEF MakeProjects, MakeDir, Fail, PcType, StateData, Established
<1>10. CASE OpenNamespace(u)
  BY <1>10, DirNames
    DEF OpenNamespace, Open, Fail, GotoAt, PcType, StateData, Established
<1>11. CASE MakeNamespace(u)
  BY <1>11, DirNames
    DEF MakeNamespace, MakeDir, Fail, PcType, StateData, Established
<1>12. CASE WriteTemporary(u)
  BY <1>12, DirNames DEF WriteTemporary, PcType, StateData, Established
<1>13. CASE LinkMetadata(u)
  BY <1>13, DirNames DEF LinkMetadata, PcType, StateData, Established
<1>14. CASE UnlinkTemporary(u)
  BY <1>14, DirNames DEF UnlinkTemporary, PcType, StateData, Established
<1>15. CASE ReadMetadata(u)
  BY <1>15, DirNames
    DEF ReadMetadata, Fail, GotoAt, PcType, StateData, Established
<1>16. CASE LookAtChild(u)
  <2>1. dir[Children[at[u]]] = "private"
    BY <1>16, ChildDirs DEF LookAtChild, Walking, Established
  <2>2. dir["lead-up"] \notin {"absent", "unsafe"}
    BY DEF Established
  <2> QED
    BY <1>16, <2>1 DEF LookAtChild, NextChild, GotoAt, Fail, PcType, StateData
<1>17. CASE MakeChild(u)
  <2>1. dir[Children[at[u]]] = "private"
    BY <1>17, ChildDirs DEF MakeChild, Walking, Established
  <2>2. dir["lead-up"] \notin {"absent", "unsafe"}
    BY DEF Established
  <2> QED
    BY <1>17, <2>1, <2>2
      DEF MakeChild, NextChild, Fail, GotoAt, MakeDir, PcType, StateData
<1>18. CASE CallFails(u)
  BY <1>18, DirNames
    DEF CallFails, Fail, Disturbed, PcType, StateData, Established
<1>19. CASE KilledResolving(u)
  BY <1>19, DirNames
    DEF KilledResolving, Disturbed, PcType, StateData, Established
<1> QED
  BY <1>1, <1>2, <1>3, <1>4, <1>5, <1>6, <1>7, <1>8, <1>9, <1>10, <1>11,
     <1>12, <1>13, <1>14, <1>15, <1>16, <1>17, <1>18, <1>19 DEF Resolve

(* A directory is made only while its whole group is safe.                 *)
LEMMA MadeWhenSafe ==
  ASSUME NEW u \in User, Walking(u), Seen(u), Resolve(u)
  PROVE  \/ dir' = dir
         \/ \E d \in {"lead-up", "projects", "namespace"} : MakeDir(d)
         \/ /\ \A i \in 1..Len(Tree) : Safe(Tree[i])
            /\ \E i \in 1..Len(Tree) : MakeDir(Tree[i])
         \/ /\ \A i \in 1..Len(Children) : Safe(Children[i])
            /\ \E i \in 1..Len(Children) : MakeDir(Children[i])
<1> USE DEF userVars, diskVars, stateVars, Goto
<1>1. CASE Start(u)
  BY <1>1 DEF Start
<1>2. CASE Inspect(u)
  BY <1>2 DEF Inspect
<1>3. CASE LeadUp(u)
  BY <1>3 DEF LeadUp
<1>4. CASE MakeLeadUp(u)
  BY <1>4 DEF MakeLeadUp, MakeDir, Fail
<1>5. CASE Secure(u)
  <2>1. at[u] \in 1..Len(Tree) /\ \A i \in 1..Len(Tree) : Safe(Tree[i])
    BY <1>5 DEF Secure, Walking, Seen, Hardening
  <2>2. dir' = dir \/ MakeDir(Tree[at[u]])
    BY <1>5 DEF Secure, MakeDir, Fail, NextOfTree, GotoAt
  <2> QED
    BY <2>1, <2>2
<1>6. CASE Make(u)
  <2>1. at[u] \in 1..Len(Tree) /\ \A i \in 1..Len(Tree) : Safe(Tree[i])
    BY <1>6 DEF Make, Walking, Seen, Hardening
  <2>2. dir' = dir \/ MakeDir(Tree[at[u]])
    BY <1>6 DEF Make, MakeDir, Fail, NextOfTree, GotoAt
  <2> QED
    BY <2>1, <2>2
<1>7. CASE OpenRoot(u)
  BY <1>7 DEF OpenRoot
<1>8. CASE OpenProjects(u)
  BY <1>8 DEF OpenProjects
<1>9. CASE MakeProjects(u)
  BY <1>9 DEF MakeProjects, MakeDir, Fail
<1>10. CASE OpenNamespace(u)
  BY <1>10 DEF OpenNamespace
<1>11. CASE MakeNamespace(u)
  BY <1>11 DEF MakeNamespace, MakeDir, Fail
<1>12. CASE WriteTemporary(u)
  BY <1>12 DEF WriteTemporary
<1>13. CASE LinkMetadata(u)
  BY <1>13 DEF LinkMetadata
<1>14. CASE UnlinkTemporary(u)
  BY <1>14 DEF UnlinkTemporary
<1>15. CASE ReadMetadata(u)
  BY <1>15 DEF ReadMetadata
<1>16. CASE LookAtChild(u)
  BY <1>16 DEF LookAtChild
<1>17. CASE MakeChild(u)
  <2>1. at[u] \in 1..Len(Children) /\ \A i \in 1..Len(Children) : Safe(Children[i])
    BY <1>17 DEF MakeChild, Walking, Seen, Hardening
  <2>2. dir' = dir \/ MakeDir(Children[at[u]])
    BY <1>17 DEF MakeChild, NextChild, Fail, GotoAt, MakeDir
  <2> QED
    BY <2>1, <2>2
<1>18. CASE CallFails(u)
  BY <1>18 DEF CallFails
<1>19. CASE KilledResolving(u)
  BY <1>19 DEF KilledResolving
<1> QED
  BY <1>1, <1>2, <1>3, <1>4, <1>5, <1>6, <1>7, <1>8, <1>9, <1>10, <1>11,
     <1>12, <1>13, <1>14, <1>15, <1>16, <1>17, <1>18, <1>19 DEF Resolve

LEMMA LateResolve ==
  ASSUME NEW u \in User, PcType, StateData, CreateType, Walking(u), Resolve(u),
         Grows, LateSettled
  PROVE  LateSettled'
<1>1. CASE Start(u)
  <2>1. pc[u] = "idle" /\ cause' = cause /\ cause[u] = "none"
    BY <1>1 DEF Start, Walking
  <2>2. late' = late \/ (late' = late \cup {u} /\ Established)
    <3>1. late' = IF Established THEN late \cup {u} ELSE late
      BY <1>1 DEF Start
    <3> QED
      BY <3>1
  <2>3. late' # {} => Established
    BY <2>2 DEF LateSettled
  <2>4. pc'[u] \in {"inspect", "root"}
    BY <1>1 DEF Start, GotoAt, Goto, PcType
  <2>5. \A w \in User \ {u} : pc'[w] = pc[w]
    BY FrameResolve
  <2>6. \A w \in late' : cause'[w] \in {"none", "error"}
    BY <2>1, <2>2 DEF LateSettled
  <2>7. \A w \in late' : pc'[w] \notin {"idle", "make-lead-up", "make"}
    BY <2>2, <2>4, <2>5 DEF LateSettled, StateData
  <2> QED
    BY <2>3, <2>6, <2>7, EstablishedStays DEF LateSettled
<1>2. CASE ~Start(u)
  <2>1. late' = late
    BY <1>2 DEF Resolve, Inspect, LeadUp, MakeLeadUp, Secure, Make, OpenRoot,
        OpenProjects, MakeProjects, OpenNamespace, MakeNamespace, WriteTemporary,
        LinkMetadata, UnlinkTemporary, ReadMetadata, LookAtChild, MakeChild,
        CallFails, KilledResolving
  <2>2. \A w \in User \ {u} : pc'[w] = pc[w] /\ cause'[w] = cause[w]
    BY FrameResolve
  <2>3. u \in late => /\ cause'[u] \in {"none", "error"}
                      /\ pc'[u] \notin {"idle", "make-lead-up", "make"}
    BY LateLocal DEF LateSettled
  <2> QED
    BY <2>1, <2>2, <2>3, EstablishedStays DEF LateSettled, StateData
<1> QED
  BY <1>1, <1>2

LEMMA CreateResolve ==
  ASSUME NEW u \in User, CreateType, Resolve(u)
  PROVE  CreateType'
<1>1. CASE Start(u)
  <2>1. create' = create \/ create' = [create EXCEPT ![u] = FALSE]
    BY <1>1 DEF Start
  <2> QED
    BY <2>1, Zenon DEF CreateType
<1>2. CASE ~Start(u)
  <2>1. create' = create
    BY <1>2 DEF Resolve, Inspect, LeadUp, MakeLeadUp, Secure, Make, OpenRoot,
        OpenProjects, MakeProjects, OpenNamespace, MakeNamespace, WriteTemporary,
        LinkMetadata, UnlinkTemporary, ReadMetadata, LookAtChild, MakeChild,
        CallFails, KilledResolving
  <2> QED
    BY <2>1 DEF CreateType
<1> QED
  BY <1>1, <1>2

LEMMA StateResolve ==
  ASSUME NEW u \in User, PcType, StateData, CreateType, StateInv, Resolve(u)
  PROVE  StateInv' /\ StateData' /\ PcType' /\ CreateType'
<1>1. Walking(u) /\ Seen(u) /\ Secured(u) /\ LateSettled
  BY DEF StateInv
<1>2. Grows
  BY <1>1, GrowsResolve
<1>3. Walking(u)' /\ Seen(u)' /\ Secured(u)'
  BY <1>1, <1>2, LocalResolve
<1>4. \A w \in User \ {u} : Walking(w)' /\ Seen(w)' /\ Secured(w)'
  BY <1>1, OthersResolve DEF StateInv
<1>5. LateSettled'
  BY <1>1, <1>2, LateResolve
<1>6. StateData' /\ PcType'
  BY <1>1, TypeResolve
<1>7. CreateType'
  BY CreateResolve
<1> QED
  BY <1>3, <1>4, <1>5, <1>6, <1>7 DEF StateInv

(* The rest of a launch leaves the state directories and users alone.      *)
LEMMA StateElsewhere ==
  ASSUME NEW u \in User, PcType, StateInv,
         UNCHANGED <<at, create, attempt, cause, late, dir, metadata>>,
         NEW s \in (Launching \cup Ended) \ {"resolved"}, Goto(u, s)
  PROVE  StateInv' /\ PcType'
<1>1. pc' = [pc EXCEPT ![u] = s] /\ pc'[u] = s
  BY DEF Goto, PcType
<1>2. PcType'
  BY <1>1 DEF PcType
<1>3. s \notin {"idle", "inspect", "look", "make-child", "resolved"}
          \cup Resolving \cup Hardening \cup Hardened
  BY DEF Launching, Ended, Resolving, Hardening, Hardened, Below, Inside, Identified
<1>4. Walking(u)' /\ Seen(u)' /\ Secured(u)'
  BY <1>1, <1>3 DEF Walking, Seen, Secured, Hardening, Hardened, Below, Inside,
      Identified, Resolving
<1>5. \A w \in User \ {u} : pc'[w] = pc[w]
  BY <1>1 DEF PcType
<1>6. ASSUME NEW w \in User \ {u}
      PROVE  Walking(w)' /\ Seen(w)' /\ Secured(w)'
  <2>1. Walking(w) /\ Seen(w) /\ Secured(w) /\ pc'[w] = pc[w]
    BY <1>5 DEF StateInv
  <2>2. Walking(w)'
    BY <2>1 DEF Walking
  <2>3. Seen(w)'
    BY <2>1 DEF Seen, Safe
  <2>4. Secured(w)'
    BY <2>1 DEF Secured, Own, Reachable
  <2> QED
    BY <2>2, <2>3, <2>4
<1>7. LateSettled'
  BY <1>1, <1>3, <1>5 DEF StateInv, LateSettled, Established, Resolving
<1> QED
  BY <1>2, <1>4, <1>6, <1>7 DEF StateInv

LEMMA StateStill ==
  ASSUME StateInv, UNCHANGED <<pc, at, create, attempt, cause, late, dir, metadata>>
  PROVE  StateInv'
<1>1. ASSUME NEW w \in User
      PROVE  Walking(w)' /\ Seen(w)' /\ Secured(w)'
  <2>1. Walking(w)'
    BY DEF Walking, StateInv
  <2>2. Seen(w)'
    BY DEF Seen, Safe, StateInv
  <2>3. Secured(w)'
    BY DEF Secured, Own, Reachable, StateInv
  <2> QED
    BY <2>1, <2>2, <2>3
<1>2. LateSettled'
  BY DEF StateInv, LateSettled, Established
<1> QED
  BY <1>1, <1>2 DEF StateInv

-----------------------------------------------------------------------------
(* The installer: types.                                                   *)
InstallerData ==
    /\ stage \in [Container -> {"off", "started", "refused", "killed", "planned"} \cup Working]
    /\ wanted \in [Container -> Version]
    /\ index \in [Container -> 1..Len(Packages) + 1]
    /\ held \in [Container -> Version \cup {NoVersion}]
    /\ writing \in [Container -> File \cup {NoFile}]
    /\ unpacked \in [Container -> SUBSET File]
    /\ results \in [Container -> Seq({"ok", "already_installed", "failed", "planned"})]
    /\ \A c \in Container : Len(results[c]) <= Len(Packages)
DryType == dry \in [Container -> BOOLEAN]
HomeData ==
    /\ home \in [Package -> [File -> Content]]
    /\ damaged \subseteq Version /\ alien \subseteq Package

LEMMA PackageFacts ==
  /\ Len(Packages) \in Nat
  /\ Package = {Packages[i] : i \in 1..Len(Packages)}
<1>1. Packages \in Seq(STRING)
  BY InstallerAssumption
<1> QED
  BY <1>1, LenProperties DEF Package

LEMMA IndexFacts ==
  ASSUME InstallerData, NEW c \in Container
  PROVE  /\ index[c] \in Nat /\ index[c] >= 1
         /\ More(c) => /\ index[c] \in 1..Len(Packages)
                       /\ index[c] + 1 \in 1..Len(Packages) + 1
         /\ ~More(c) => index[c] = Len(Packages) + 1
BY PackageFacts DEF InstallerData, More

LEMMA CurrentFacts ==
  ASSUME InstallerData, NEW c \in Container, More(c)
  PROVE  Current(c) \in Package
<1>1. index[c] \in 1..Len(Packages)
  BY IndexFacts
<1> QED
  BY <1>1, PackageFacts DEF Current

LEMMA ResultFacts ==
  ASSUME InstallerData, NEW c \in Container, More(c), Len(results[c]) = index[c] - 1,
         NEW outcome \in {"ok", "already_installed", "failed", "planned"}
  PROVE  /\ Append(results[c], outcome)
                \in Seq({"ok", "already_installed", "failed", "planned"})
         /\ Len(Append(results[c], outcome)) = index[c]
         /\ index[c] <= Len(Packages)
<1> DEFINE S == {"ok", "already_installed", "failed", "planned"}
<1>1. results[c] \in Seq(S)
  BY DEF InstallerData
<1> HIDE DEF S
<1>2. outcome \in S
  BY DEF S
<1>3. Append(results[c], outcome) \in Seq(S)
      /\ Len(Append(results[c], outcome)) = Len(results[c]) + 1
  BY <1>1, <1>2, AppendProperties
<1>4. index[c] \in 1..Len(Packages)
  BY IndexFacts
<1> QED
  BY <1>3, <1>4, PackageFacts DEF S

(* The outcome of a package is recorded: types, and the container's shape. *)
LEMMA Recorded ==
  ASSUME InstallerData, DryType, NEW c \in Container, More(c),
         Len(results[c]) = index[c] - 1,
         NEW outcome \in {"ok", "already_installed", "failed", "planned"},
         Record(c, outcome)
  PROVE  /\ wanted' \in [Container -> Version]
         /\ held' \in [Container -> Version \cup {NoVersion}]
         /\ writing' \in [Container -> File \cup {NoFile}]
         /\ unpacked' \in [Container -> SUBSET File]
         /\ results' \in [Container -> Seq({"ok", "already_installed", "failed", "planned"})]
         /\ \A d \in Container : Len(results'[d]) <= Len(Packages)
         /\ DryType'
         /\ Len(results'[c]) = index[c]
         /\ unpacked'[c] = {} /\ writing'[c] = NoFile /\ dry' = dry
<1>1. /\ results' = [results EXCEPT ![c] = Append(results[c], outcome)]
      /\ held' = [held EXCEPT ![c] = NoVersion]
      /\ writing' = [writing EXCEPT ![c] = NoFile]
      /\ unpacked' = [unpacked EXCEPT ![c] = {}]
      /\ wanted' = wanted /\ dry' = dry
  BY DEF Record
<1>2. wanted' \in [Container -> Version]
  BY <1>1 DEF InstallerData
<1>3. held' \in [Container -> Version \cup {NoVersion}]
  BY <1>1 DEF InstallerData
<1>4. writing' \in [Container -> File \cup {NoFile}] /\ writing'[c] = NoFile
  BY <1>1 DEF InstallerData
<1>5. unpacked' \in [Container -> SUBSET File] /\ unpacked'[c] = {}
  BY <1>1 DEF InstallerData
<1>6. results' \in [Container -> Seq({"ok", "already_installed", "failed", "planned"})]
  BY <1>1, ResultFacts DEF InstallerData
<1>7. Len(results'[c]) = index[c] /\ index[c] <= Len(Packages)
  BY <1>1, ResultFacts DEF InstallerData
<1>8. \A d \in Container \ {c} : Len(results'[d]) <= Len(Packages)
  BY <1>1 DEF InstallerData
<1>9. DryType'
  BY <1>1 DEF DryType
<1> QED
  BY <1>1, <1>2, <1>3, <1>4, <1>5, <1>6, <1>7, <1>8, <1>9

LEMMA StageType ==
  ASSUME InstallerData, NEW c \in Container, NEW s, Become(c, s),
         s \in {"off", "started", "refused", "killed", "planned"} \cup Working
  PROVE  /\ stage' \in [Container -> {"off", "started", "refused", "killed", "planned"}
                                       \cup Working]
         /\ stage'[c] = s /\ \A d \in Container \ {c} : stage'[d] = stage[d]
BY DEF InstallerData, Become

LEMMA Refused ==
  ASSUME InstallerData, DryType, NEW c \in Container, Shape(c), pc' = pc,
         stage[c] \in Working, More(c), Refuse(c)
  PROVE  InstallerData' /\ DryType' /\ Shape(c)'
<1>1. Record(c, "failed") /\ Become(c, "refused") /\ index' = index
  BY DEF Refuse
<1>2. Len(results[c]) = index[c] - 1
  BY DEF Shape, Working
<1>3. InstallerData' /\ DryType'
  BY <1>1, <1>2, Recorded, StageType DEF InstallerData
<1>4. stage'[c] = "refused"
  BY <1>1, StageType
<1> QED
  BY <1>3, <1>4 DEF Shape, Working

LEMMA Succeeded ==
  ASSUME InstallerData, DryType, NEW c \in Container, Shape(c), pc' = pc,
         stage[c] \in Working, More(c),
         NEW outcome \in {"ok", "already_installed", "failed", "planned"},
         Succeed(c, outcome)
  PROVE  /\ InstallerData' /\ DryType' /\ Shape(c)'
         /\ stage'[c] = "inspect" /\ index'[c] = index[c] + 1
<1>1. Record(c, outcome) /\ Become(c, "inspect") /\ index' = [index EXCEPT ![c] = index[c] + 1]
  BY DEF Succeed
<1>2. Len(results[c]) = index[c] - 1
  BY DEF Shape, Working
<1>3. index' \in [Container -> 1..Len(Packages) + 1] /\ index'[c] = index[c] + 1
  BY <1>1, IndexFacts DEF InstallerData
<1>4. InstallerData' /\ DryType'
  BY <1>1, <1>2, <1>3, Recorded, StageType DEF InstallerData, Working
<1>5. stage'[c] = "inspect"
  BY <1>1, StageType DEF Working
<1>6. /\ Len(results'[c]) = index[c] /\ unpacked'[c] = {} /\ writing'[c] = NoFile
      /\ dry' = dry
  BY <1>1, <1>2, Recorded
<1>7. Len(results'[c]) = index'[c] - 1
  BY <1>3, <1>6, IndexFacts
<1>8. Shape(c)'
  BY <1>5, <1>6, <1>7 DEF Shape, Working
<1> QED
  BY <1>3, <1>4, <1>5, <1>8

(* The outcomes of the pre-check. *)
LEMMA PrecheckOutcomes ==
  ASSUME NEW c, Precheck(c)
  PROVE  /\ stage[c] = "inspect" /\ More(c)
         /\ home' = home /\ damaged' = damaged /\ alien' = alien /\ upset' = upset
         /\ \/ Refuse(c)
            \/ Metadata(c) = wanted[c] /\ Succeed(c, "already_installed")
            \/ dry[c] /\ Succeed(c, "planned")
            \/ /\ ~dry[c] /\ Become(c, "open")
               /\ UNCHANGED <<wanted, dry, index, held, writing, unpacked, results>>
<1>1. /\ stage[c] = "inspect" /\ More(c)
      /\ home' = home /\ damaged' = damaged /\ alien' = alien /\ upset' = upset
  BY DEF Precheck, homeVars
<1>2. CASE Metadata(c) = "torn"
  BY <1>1, <1>2 DEF Precheck
<1>3. CASE Metadata(c) # "torn" /\ Metadata(c) = wanted[c] /\ Current(c) \in alien
  BY <1>1, <1>3 DEF Precheck
<1>4. CASE Metadata(c) # "torn" /\ Metadata(c) = wanted[c] /\ Current(c) \notin alien
  BY <1>1, <1>4 DEF Precheck
<1>5. CASE Metadata(c) # "torn" /\ Metadata(c) # wanted[c] /\ dry[c]
  BY <1>1, <1>5 DEF Precheck
<1>6. CASE Metadata(c) # "torn" /\ Metadata(c) # wanted[c] /\ ~dry[c]
  BY <1>1, <1>6 DEF Precheck
<1> QED
  BY <1>2, <1>3, <1>4, <1>5, <1>6

(* A change of one field of a container's own: the shape that remains.     *)
Kept(c) ==
    /\ wanted' = wanted /\ index' = index /\ results' = results /\ dry' = dry

LEMMA KeptShape ==
  ASSUME InstallerData, DryType, NEW c \in Container, Shape(c), pc' = pc, Kept(c),
         NEW s \in {"started", "refused", "killed", "planned"} \cup Working,
         Become(c, s), stage[c] # "off",
         held' \in [Container -> Version \cup {NoVersion}],
         writing' \in [Container -> File \cup {NoFile}],
         unpacked' \in [Container -> SUBSET File],
         s \in {"inspect", "open", "started"} => unpacked'[c] = {} /\ writing'[c] = NoFile,
         s = "check" => writing'[c] = NoFile,
         s \in {"open", "unpack", "check"} => ~dry[c] /\ More(c),
         s = "unpack" => held'[c] = wanted[c],
         s = "started" => ~dry[c] /\ ~More(c),
         s \in {"inspect", "open", "unpack", "check"} => Len(results[c]) = index[c] - 1
  PROVE  InstallerData' /\ DryType' /\ Shape(c)'
<1>1. InstallerData'
  BY StageType DEF InstallerData, Kept
<1>2. DryType'
  BY DEF Kept, DryType
<1>3. stage'[c] = s
  BY StageType
<1>4. dry'[c] = dry[c] /\ index'[c] = index[c] /\ results'[c] = results[c]
      /\ wanted'[c] = wanted[c] /\ (More(c)' <=> More(c)) /\ pc'[c] = pc[c]
  BY DEF Kept, More
<1>5. pc'[c] \notin BeforeDocker
  BY <1>4 DEF Shape
<1>6. s # "off"
  BY DEF Working
<1>7. /\ stage'[c] \in {"off", "inspect", "open", "started"} =>
            unpacked'[c] = {} /\ writing'[c] = NoFile
      /\ stage'[c] = "check" => writing'[c] = NoFile
      /\ stage'[c] = "unpack" => held'[c] = wanted'[c]
  BY <1>3, <1>4, <1>6
<1>8. /\ stage'[c] \in {"open", "unpack", "check"} => ~dry'[c] /\ More(c)'
      /\ stage'[c] = "started" => ~dry'[c] /\ ~More(c)'
  BY <1>3, <1>4, <1>6
<1>9. stage'[c] \in {"off", "inspect", "open", "unpack", "check"} =>
            Len(results'[c]) = index'[c] - 1
  BY <1>3, <1>4, <1>6
<1>10. Shape(c)'
  BY <1>3, <1>5, <1>6, <1>7, <1>8, <1>9 DEF Shape
<1> QED
  BY <1>1, <1>2, <1>10

LEMMA StepPrecheck ==
  ASSUME InstallerData, DryType, HomeData, NEW c \in Container, Shape(c), pc' = pc,
         Precheck(c)
  PROVE  InstallerData' /\ DryType' /\ HomeData' /\ Shape(c)'
<1>1. /\ stage[c] = "inspect" /\ More(c)
      /\ home' = home /\ damaged' = damaged /\ alien' = alien
  BY PrecheckOutcomes
<1>2. HomeData'
  BY <1>1 DEF HomeData
<1>3. CASE Refuse(c)
  BY <1>1, <1>2, <1>3, Refused DEF Working
<1>4. CASE Succeed(c, "already_installed")
  BY <1>1, <1>2, <1>4, Succeeded DEF Working
<1>5. CASE Succeed(c, "planned")
  BY <1>1, <1>2, <1>5, Succeeded DEF Working
<1>6. CASE /\ ~dry[c] /\ Become(c, "open")
           /\ UNCHANGED <<wanted, dry, index, held, writing, unpacked, results>>
  <2>1. /\ held' \in [Container -> Version \cup {NoVersion}]
        /\ writing' \in [Container -> File \cup {NoFile}]
        /\ unpacked' \in [Container -> SUBSET File]
    BY <1>6 DEF InstallerData
  <2>2. /\ unpacked'[c] = {} /\ writing'[c] = NoFile /\ Len(results[c]) = index[c] - 1
    BY <1>1, <1>6 DEF Shape
  <2>3. Kept(c)
    BY <1>6 DEF Kept
  <2> QED
    BY <1>1, <1>2, <1>6, <2>1, <2>2, <2>3, KeptShape DEF Working
<1> QED
  BY <1>3, <1>4, <1>5, <1>6, PrecheckOutcomes

LEMMA StepFinish ==
  ASSUME InstallerData, DryType, HomeData, NEW c \in Container, Shape(c), pc' = pc,
         Finish(c)
  PROVE  InstallerData' /\ DryType' /\ HomeData' /\ Shape(c)'
<1> DEFINE s == IF dry[c] THEN "planned" ELSE "started"
<1>1. /\ stage[c] = "inspect" /\ ~More(c) /\ Become(c, s) /\ Kept(c)
      /\ held' = held /\ writing' = writing /\ unpacked' = unpacked
      /\ home' = home /\ damaged' = damaged /\ alien' = alien
  BY DEF Finish, homeVars, Kept
<1>2. HomeData'
  BY <1>1 DEF HomeData
<1>3. /\ held' \in [Container -> Version \cup {NoVersion}]
      /\ writing' \in [Container -> File \cup {NoFile}]
      /\ unpacked' \in [Container -> SUBSET File]
  BY <1>1 DEF InstallerData
<1>4. unpacked'[c] = {} /\ writing'[c] = NoFile
  BY <1>1 DEF Shape
<1>5. s \in {"started", "planned"} /\ (s = "started" => ~dry[c])
  OBVIOUS
<1> HIDE DEF s
<1>6. CASE s = "started"
  BY <1>1, <1>2, <1>3, <1>4, <1>5, <1>6, KeptShape
<1>7. CASE s = "planned"
  BY <1>1, <1>2, <1>3, <1>4, <1>7, KeptShape
<1> QED
  BY <1>5, <1>6, <1>7

LEMMA StepOpenVerified ==
  ASSUME InstallerData, DryType, HomeData, NEW c \in Container, Shape(c), pc' = pc,
         OpenVerified(c)
  PROVE  InstallerData' /\ DryType' /\ HomeData' /\ Shape(c)'
<1>1. /\ stage[c] = "open" /\ home' = home /\ damaged' = damaged /\ alien' = alien
  BY DEF OpenVerified, homeVars
<1>2. HomeData'
  BY <1>1 DEF HomeData
<1>3. /\ ~dry[c] /\ More(c) /\ Len(results[c]) = index[c] - 1
  BY <1>1 DEF Shape
<1>4. CASE Refuse(c)
  BY <1>1, <1>2, <1>3, <1>4, Refused DEF Working
<1>5. CASE ~Refuse(c)
  <2>1. /\ held' = [held EXCEPT ![c] = wanted[c]] /\ Become(c, "unpack") /\ Kept(c)
        /\ writing' = writing /\ unpacked' = unpacked
    BY <1>5 DEF OpenVerified, Kept
  <2>2. /\ held' \in [Container -> Version \cup {NoVersion}] /\ held'[c] = wanted[c]
        /\ writing' \in [Container -> File \cup {NoFile}]
        /\ unpacked' \in [Container -> SUBSET File]
    BY <2>1 DEF InstallerData
  <2> QED
    BY <1>1, <1>2, <1>3, <2>1, <2>2, KeptShape DEF Working
<1> QED
  BY <1>4, <1>5

(* One file of a home.                                                     *)
LEMMA HomeWrite ==
  ASSUME HomeData, NEW p \in Package, NEW f \in File, NEW x \in Content,
         home' = [home EXCEPT ![p][f] = x]
  PROVE  /\ home' \in [Package -> [File -> Content]]
         /\ home'[p][f] = x
         /\ \A q \in Package, g \in File :
               q # p \/ g # f => home'[q][g] = home[q][g]
BY DEF HomeData

LEMMA StepOpenMember ==
  ASSUME InstallerData, DryType, HomeData, NEW c \in Container, Shape(c), pc' = pc,
         NEW f \in File, OpenMember(c, f)
  PROVE  InstallerData' /\ DryType' /\ HomeData' /\ Shape(c)'
<1>1. stage[c] = "unpack" /\ damaged' = damaged /\ alien' = alien
  BY DEF OpenMember
<1>2. /\ ~dry[c] /\ More(c) /\ Len(results[c]) = index[c] - 1 /\ held[c] = wanted[c]
  BY <1>1 DEF Shape
<1>3. CASE Refuse(c) /\ home' = home
  <2>1. HomeData'
    BY <1>1, <1>3 DEF HomeData
  <2> QED
    BY <1>1, <1>2, <1>3, <2>1, Refused DEF Working
<1>4. CASE ~(Refuse(c) /\ home' = home)
  <2>1. /\ home' = [home EXCEPT ![Current(c)][f] = "torn"]
        /\ writing' = [writing EXCEPT ![c] = f]
        /\ stage' = stage /\ Kept(c) /\ held' = held /\ unpacked' = unpacked
    BY <1>4 DEF OpenMember, Kept
  <2>2. Become(c, "unpack")
    BY <1>1, <2>1 DEF Become, InstallerData
  <2>3. HomeData'
    BY <1>1, <1>2, <2>1, CurrentFacts, HomeWrite DEF HomeData, Content
  <2>4. /\ held' \in [Container -> Version \cup {NoVersion}] /\ held'[c] = wanted[c]
        /\ writing' \in [Container -> File \cup {NoFile}]
        /\ unpacked' \in [Container -> SUBSET File]
    BY <1>2, <2>1 DEF InstallerData
  <2> QED
    BY <1>1, <1>2, <2>1, <2>2, <2>3, <2>4, KeptShape DEF Working
<1> QED
  BY <1>3, <1>4

LEMMA StepWriteMember ==
  ASSUME InstallerData, DryType, HomeData, NEW c \in Container, Shape(c), pc' = pc,
         WriteMember(c)
  PROVE  InstallerData' /\ DryType' /\ HomeData' /\ Shape(c)'
<1> DEFINE s == IF unpacked'[c] = File THEN "check" ELSE "unpack"
<1>1. /\ stage[c] = "unpack" /\ writing[c] # NoFile /\ damaged' = damaged /\ alien' = alien
      /\ home' = [home EXCEPT ![Current(c)][writing[c]] =
                     IF @ \in {"torn", held[c]} THEN held[c] ELSE "torn"]
      /\ unpacked' = [unpacked EXCEPT ![c] = unpacked[c] \cup {writing[c]}]
      /\ writing' = [writing EXCEPT ![c] = NoFile] /\ held' = held
      /\ Kept(c) /\ Become(c, s)
  BY DEF WriteMember, Kept
<1>2. /\ ~dry[c] /\ More(c) /\ Len(results[c]) = index[c] - 1 /\ held[c] = wanted[c]
  BY <1>1 DEF Shape
<1>3. writing[c] \in File /\ held[c] \in Version
  BY <1>1, <1>2 DEF InstallerData
<1>4. HomeData'
  <2>1. \E x \in Content : home' = [home EXCEPT ![Current(c)][writing[c]] = x]
    BY <1>1, <1>3 DEF Content
  <2> QED
    BY <1>1, <1>2, <1>3, <2>1, CurrentFacts, HomeWrite DEF HomeData
<1>5. /\ held' \in [Container -> Version \cup {NoVersion}] /\ held'[c] = wanted[c]
      /\ writing' \in [Container -> File \cup {NoFile}] /\ writing'[c] = NoFile
      /\ unpacked' \in [Container -> SUBSET File]
  BY <1>1, <1>2, <1>3 DEF InstallerData
<1>6. s \in {"check", "unpack"}
  OBVIOUS
<1> HIDE DEF s
<1> QED
  BY <1>1, <1>2, <1>4, <1>5, <1>6, KeptShape DEF Working

LEMMA StepCheck ==
  ASSUME InstallerData, DryType, HomeData, NEW c \in Container, Shape(c), pc' = pc,
         Check(c)
  PROVE  InstallerData' /\ DryType' /\ HomeData' /\ Shape(c)'
<1>1. /\ stage[c] = "check" /\ home' = home /\ damaged' = damaged /\ alien' = alien
      /\ (Succeed(c, "ok") \/ Refuse(c))
  BY DEF Check, homeVars
<1>2. HomeData'
  BY <1>1 DEF HomeData
<1>3. More(c)
  BY <1>1 DEF Shape
<1> QED
  BY <1>1, <1>2, <1>3, Refused, Succeeded DEF Working

LEMMA StepPlanAgain ==
  ASSUME InstallerData, DryType, HomeData, NEW c \in Container, Shape(c), pc' = pc,
         PlanAgain(c)
  PROVE  InstallerData' /\ DryType' /\ HomeData' /\ Shape(c)'
<1>1. /\ stage[c] = "started" /\ Become(c, "inspect")
      /\ dry' = [dry EXCEPT ![c] = TRUE] /\ index' = [index EXCEPT ![c] = 1]
      /\ results' = [results EXCEPT ![c] = <<>>]
      /\ wanted' = wanted /\ held' = held /\ writing' = writing /\ unpacked' = unpacked
      /\ home' = home /\ damaged' = damaged /\ alien' = alien
  BY DEF PlanAgain, homeVars
<1>2. HomeData'
  BY <1>1 DEF HomeData
<1>3. DryType' /\ dry'[c] = TRUE
  BY <1>1, Zenon DEF DryType
<1>4. index' \in [Container -> 1..Len(Packages) + 1] /\ index'[c] = 1
  BY <1>1, PackageFacts DEF InstallerData
<1>5. /\ results' \in [Container -> Seq({"ok", "already_installed", "failed", "planned"})]
      /\ results'[c] = <<>>
      /\ \A d \in Container : Len(results'[d]) <= Len(Packages)
  BY <1>1, PackageFacts, EmptySeq DEF InstallerData
<1>6. stage'[c] = "inspect"
  BY <1>1, StageType DEF Working
<1>7. InstallerData'
  BY <1>1, <1>4, <1>5, StageType DEF InstallerData, Working
<1>8. unpacked'[c] = {} /\ writing'[c] = NoFile /\ pc'[c] = pc[c]
  BY <1>1 DEF Shape
<1>9. Len(results'[c]) = index'[c] - 1
  BY <1>4, <1>5, EmptySeq
<1>10. Shape(c)'
  BY <1>1, <1>6, <1>8, <1>9 DEF Shape
<1> QED
  BY <1>2, <1>3, <1>7, <1>10

LEMMA StepUnpackFails ==
  ASSUME InstallerData, DryType, HomeData, NEW c \in Container, Shape(c), pc' = pc,
         UnpackFails(c)
  PROVE  InstallerData' /\ DryType' /\ HomeData' /\ Shape(c)'
<1>1. /\ stage[c] = "unpack" /\ Refuse(c)
      /\ home' = home /\ damaged' = damaged /\ alien' = alien
  BY DEF UnpackFails, homeVars
<1>2. HomeData' /\ More(c)
  BY <1>1 DEF HomeData, Shape
<1> QED
  BY <1>1, <1>2, Refused DEF Working

LEMMA StepKillContainer ==
  ASSUME InstallerData, DryType, HomeData, NEW c \in Container, Shape(c), pc' = pc,
         KillContainer(c)
  PROVE  InstallerData' /\ DryType' /\ HomeData' /\ Shape(c)'
<1>1. /\ stage[c] \in Working /\ Become(c, "killed") /\ Kept(c)
      /\ held' = held /\ writing' = writing /\ unpacked' = unpacked
      /\ home' = home /\ damaged' = damaged /\ alien' = alien
  BY DEF KillContainer, homeVars, Kept
<1>2. HomeData'
  BY <1>1 DEF HomeData
<1>3. /\ held' \in [Container -> Version \cup {NoVersion}]
      /\ writing' \in [Container -> File \cup {NoFile}]
      /\ unpacked' \in [Container -> SUBSET File]
  BY <1>1 DEF InstallerData
<1>4. stage[c] # "off"
  BY <1>1 DEF Working
<1> QED
  BY <1>1, <1>2, <1>3, <1>4, KeptShape

-----------------------------------------------------------------------------
(* The installer: every step.                                              *)
Act(c) == InstallerStep(c) \/ PlanAgain(c) \/ UnpackFails(c) \/ KillContainer(c)

LEMMA StepAct ==
  ASSUME InstallerData, DryType, HomeData, NEW c \in Container, Shape(c), pc' = pc,
         Act(c)
  PROVE  InstallerData' /\ DryType' /\ HomeData' /\ Shape(c)'
BY StepPrecheck, StepFinish, StepOpenVerified, StepOpenMember, StepWriteMember,
   StepCheck, StepPlanAgain, StepUnpackFails, StepKillContainer DEF Act, InstallerStep

LEMMA FrameOutcome ==
  ASSUME InstallerData, DryType, NEW c \in Container, NEW o,
         Refuse(c) \/ Succeed(c, o)
  PROVE  /\ wanted' = wanted
         /\ \A d \in Container \ {c} :
               /\ stage'[d] = stage[d] /\ dry'[d] = dry[d] /\ index'[d] = index[d]
               /\ held'[d] = held[d] /\ writing'[d] = writing[d]
               /\ unpacked'[d] = unpacked[d] /\ results'[d] = results[d]
BY DEF Refuse, Succeed, Record, Become, InstallerData, DryType

LEMMA FrameAct ==
  ASSUME InstallerData, DryType, NEW c \in Container, Act(c)
  PROVE  /\ wanted' = wanted
         /\ \A d \in Container \ {c} :
               /\ stage'[d] = stage[d] /\ dry'[d] = dry[d] /\ index'[d] = index[d]
               /\ held'[d] = held[d] /\ writing'[d] = writing[d]
               /\ unpacked'[d] = unpacked[d] /\ results'[d] = results[d]
<1>1. CASE Precheck(c)
  <2>1. CASE Refuse(c) \/ Succeed(c, "already_installed") \/ Succeed(c, "planned")
    BY <2>1, FrameOutcome
  <2>2. CASE /\ Become(c, "open")
             /\ UNCHANGED <<wanted, dry, index, held, writing, unpacked, results>>
    BY <2>2 DEF Become, InstallerData
  <2> QED
    BY <1>1, <2>1, <2>2, PrecheckOutcomes
<1>2. CASE Finish(c)
  BY <1>2 DEF Finish, Become, InstallerData
<1>3. CASE OpenVerified(c)
  <2>1. CASE Refuse(c)
    BY <2>1, FrameOutcome
  <2>2. CASE ~Refuse(c)
    BY <1>3, <2>2 DEF OpenVerified, Become, InstallerData
  <2> QED
    BY <2>1, <2>2
<1>4. CASE \E f \in File : OpenMember(c, f)
  <2>1. CASE Refuse(c)
    BY <2>1, FrameOutcome
  <2>2. CASE ~Refuse(c)
    BY <1>4, <2>2 DEF OpenMember, InstallerData
  <2> QED
    BY <2>1, <2>2
<1>5. CASE WriteMember(c)
  BY <1>5 DEF WriteMember, Become, InstallerData
<1>6. CASE Check(c)
  BY <1>6, FrameOutcome DEF Check
<1>7. CASE PlanAgain(c)
  BY <1>7 DEF PlanAgain, Become, InstallerData, DryType
<1>8. CASE UnpackFails(c)
  BY <1>8, FrameOutcome DEF UnpackFails
<1>9. CASE KillContainer(c)
  BY <1>9 DEF KillContainer, Become, InstallerData
<1> QED
  BY <1>1, <1>2, <1>3, <1>4, <1>5, <1>6, <1>7, <1>8, <1>9 DEF Act, InstallerStep

LEMMA ShapeStays ==
  ASSUME NEW c, Shape(c), pc'[c] = pc[c],
         stage'[c] = stage[c], dry'[c] = dry[c], index'[c] = index[c],
         wanted'[c] = wanted[c], held'[c] = held[c], writing'[c] = writing[c],
         unpacked'[c] = unpacked[c], results'[c] = results[c]
  PROVE  Shape(c)'
BY DEF Shape, More

LEMMA ShapesAct ==
  ASSUME InstallerData, DryType, HomeData, NEW c \in Container, pc' = pc, Act(c),
         \A d \in Container : Shape(d)
  PROVE  InstallerData' /\ DryType' /\ HomeData' /\ \A d \in Container : Shape(d)'
<1>1. InstallerData' /\ DryType' /\ HomeData' /\ Shape(c)'
  BY StepAct
<1>2. \A d \in Container \ {c} : Shape(d)'
  BY FrameAct, ShapeStays
<1> QED
  BY <1>1, <1>2

-----------------------------------------------------------------------------
(* The installer: order in the Pi home.                                    *)
LEMMA OrderlyStill ==
  ASSUME NEW v0, NEW v, Orderly(v0, v), home' = home, alien' = alien,
         \A c \in Container :
            stage[c] = "unpack" /\ writing[c] # NoFile =>
                stage'[c] = "unpack" /\ index'[c] = index[c] /\ writing'[c] = writing[c],
         \A c \in Container : stage[c] = "unpack" =>
                \/ stage'[c] = "unpack" /\ index'[c] = index[c]
                \/ \A f \in File : Touched(v0, v, Current(c), f)
                \/ ~Touched(v0, v, Current(c), "package.json"),
         \A c \in Container : stage'[c] = "unpack" =>
                \/ /\ stage[c] = "unpack" /\ index'[c] = index[c]
                   /\ unpacked'[c] = unpacked[c] /\ writing'[c] = writing[c]
                \/ unpacked'[c] = {} /\ writing'[c] = NoFile,
         \A c \in Container : ~dry'[c] =>
            \A i \in 1..index'[c] - 1 :
                \/ ~dry[c] /\ i \in 1..index[c] - 1
                \/ Touched(v0, v, Packages[i], "package.json")
  PROVE  Orderly(v0, v)'
<1>1. \A p, f : Touched(v0, v, p, f)' <=> Touched(v0, v, p, f)
  BY DEF Touched
<1>2. \A c \in Container, p \in Package : stage'[c] = "unpack" /\ index'[c] = index[c] =>
          (Unpacking(c, p)' <=> Current(c) = p)
  BY DEF Unpacking, Current
<1>3. \A p \in Package, f \in File :
          /\ home'[p][f] \in {v0, v, "torn"}
          /\ home'[p][f] = "torn" => \E c \in Container : Unpacking(c, p)' /\ writing'[c] = f
  <2> SUFFICES ASSUME NEW p \in Package, NEW f \in File
               PROVE  /\ home'[p][f] \in {v0, v, "torn"}
                      /\ home'[p][f] = "torn" =>
                            \E c \in Container : Unpacking(c, p)' /\ writing'[c] = f
    OBVIOUS
  <2>1. home'[p][f] \in {v0, v, "torn"}
    BY DEF Orderly
  <2>2. ASSUME home'[p][f] = "torn"
        PROVE  \E c \in Container : Unpacking(c, p)' /\ writing'[c] = f
    <3>1. PICK c \in Container : Unpacking(c, p) /\ writing[c] = f
      BY <2>2 DEF Orderly
    <3>2. stage[c] = "unpack" /\ writing[c] # NoFile
      BY <3>1, InstallerAssumption DEF Unpacking
    <3> QED
      BY <1>2, <3>1, <3>2 DEF Unpacking
  <2> QED
    BY <2>1, <2>2
<1>4. \A p \in alien' : home'[p]["package.json"] = v0
  BY DEF Orderly
<1>5. \A p \in Package :
          Touched(v0, v, p, "package.json")' =>
              \/ \E c \in Container : Unpacking(c, p)'
              \/ \A f \in File : Touched(v0, v, p, f)'
  <2> SUFFICES ASSUME NEW p \in Package, Touched(v0, v, p, "package.json"),
                      ~ \A f \in File : Touched(v0, v, p, f)
               PROVE  \E c \in Container : Unpacking(c, p)'
    BY <1>1
  <2>1. PICK c \in Container : Unpacking(c, p)
    BY DEF Orderly
  <2>2. stage[c] = "unpack" /\ Current(c) = p
    BY <2>1 DEF Unpacking
  <2> QED
    BY <1>2, <2>2
<1>6. \A c \in Container : stage'[c] = "unpack" =>
          \A f \in unpacked'[c] \cup {writing'[c]} :
              f # NoFile => Touched(v0, v, Current(c), f)'
  <2> SUFFICES ASSUME NEW c \in Container, stage'[c] = "unpack",
                      NEW f \in unpacked'[c] \cup {writing'[c]}, f # NoFile
               PROVE  Touched(v0, v, Current(c), f)'
    OBVIOUS
  <2>1. /\ stage[c] = "unpack" /\ index'[c] = index[c]
        /\ f \in unpacked[c] \cup {writing[c]}
    OBVIOUS
  <2>2. Touched(v0, v, Current(c), f) /\ Current(c)' = Current(c)
    BY <2>1 DEF Orderly, Current
  <2> QED
    BY <2>2 DEF Touched
<1>7. \A c \in Container : ~dry'[c] =>
          \A i \in 1..index'[c] - 1 : Touched(v0, v, Packages[i], "package.json")'
  BY <1>1 DEF Orderly
<1> QED
  BY <1>3, <1>4, <1>5, <1>6, <1>7 DEF Orderly

LEMMA OrderlyRecorded ==
  ASSUME NEW v0, NEW v, Orderly(v0, v), InstallerData, DryType, NEW c \in Container,
         NEW o, Refuse(c) \/ Succeed(c, o), home' = home, alien' = alien,
         stage[c] = "unpack" =>
             writing[c] = NoFile /\ (\/ \A f \in File : Touched(v0, v, Current(c), f)
                                     \/ ~Touched(v0, v, Current(c), "package.json")),
         Succeed(c, o) /\ ~dry[c] => Touched(v0, v, Current(c), "package.json"), More(c)
  PROVE  Orderly(v0, v)'
<1>1. /\ stage'[c] \in {"refused", "inspect"} /\ dry' = dry
      /\ index'[c] = index[c] \/ (Succeed(c, o) /\ index'[c] = index[c] + 1)
  BY DEF Refuse, Succeed, Record, Become, InstallerData
<1>2. \A d \in Container \ {c} :
          /\ stage'[d] = stage[d] /\ dry'[d] = dry[d] /\ index'[d] = index[d]
          /\ writing'[d] = writing[d] /\ unpacked'[d] = unpacked[d]
  BY FrameOutcome
<1>3. \A i \in 1..index[c] : i \in 1..index[c] - 1 \/ i = index[c]
  BY IndexFacts
<1>4. (index[c] + 1) - 1 = index[c]
  BY IndexFacts
<1>5. \A i \in 1..index'[c] - 1 :
          ~dry[c] => i \in 1..index[c] - 1 \/ Touched(v0, v, Packages[i], "package.json")
  BY <1>1, <1>3, <1>4 DEF Current
<1>6. \A d \in Container : ~dry'[d] =>
          \A i \in 1..index'[d] - 1 :
              \/ ~dry[d] /\ i \in 1..index[d] - 1
              \/ Touched(v0, v, Packages[i], "package.json")
  BY <1>1, <1>2, <1>5
<1>7. \A d \in Container :
          stage[d] = "unpack" /\ writing[d] # NoFile =>
              stage'[d] = "unpack" /\ index'[d] = index[d] /\ writing'[d] = writing[d]
  BY <1>2
<1>8. \A d \in Container : stage[d] = "unpack" =>
          \/ stage'[d] = "unpack" /\ index'[d] = index[d]
          \/ \A f \in File : Touched(v0, v, Current(d), f)
          \/ ~Touched(v0, v, Current(d), "package.json")
  BY <1>2
<1>9. \A d \in Container : stage'[d] = "unpack" =>
          \/ /\ stage[d] = "unpack" /\ index'[d] = index[d]
             /\ unpacked'[d] = unpacked[d] /\ writing'[d] = writing[d]
          \/ unpacked'[d] = {} /\ writing'[d] = NoFile
  BY <1>1, <1>2
<1> QED
  BY <1>6, <1>7, <1>8, <1>9, OrderlyStill

(* A change of stage that does not touch the Pi home. *)
LEMMA OrderlyMoved ==
  ASSUME NEW v0, NEW v, Orderly(v0, v), NEW c \in Container,
         home' = home, alien' = alien, stage[c] # "unpack",
         stage'[c] = "unpack" => unpacked'[c] = {} /\ writing'[c] = NoFile,
         ~dry'[c] => ~dry[c] /\ index'[c] = index[c],
         \A d \in Container \ {c} :
             /\ stage'[d] = stage[d] /\ dry'[d] = dry[d] /\ index'[d] = index[d]
             /\ writing'[d] = writing[d] /\ unpacked'[d] = unpacked[d]
  PROVE  Orderly(v0, v)'
<1>1. \A d \in Container :
          stage[d] = "unpack" /\ writing[d] # NoFile =>
              stage'[d] = "unpack" /\ index'[d] = index[d] /\ writing'[d] = writing[d]
  OBVIOUS
<1>2. \A d \in Container : stage[d] = "unpack" =>
          \/ stage'[d] = "unpack" /\ index'[d] = index[d]
          \/ \A f \in File : Touched(v0, v, Current(d), f)
          \/ ~Touched(v0, v, Current(d), "package.json")
  OBVIOUS
<1>3. \A d \in Container : stage'[d] = "unpack" =>
          \/ /\ stage[d] = "unpack" /\ index'[d] = index[d]
             /\ unpacked'[d] = unpacked[d] /\ writing'[d] = writing[d]
          \/ unpacked'[d] = {} /\ writing'[d] = NoFile
  OBVIOUS
<1>4. \A d \in Container : ~dry'[d] =>
          \A i \in 1..index'[d] - 1 :
              \/ ~dry[d] /\ i \in 1..index[d] - 1
              \/ Touched(v0, v, Packages[i], "package.json")
  OBVIOUS
<1> QED
  BY <1>1, <1>2, <1>3, <1>4, OrderlyStill

(* A file of the package a container unpacks changes in its hand.          *)
LEMMA OrderlyWritten ==
  ASSUME NEW v0 \in Version \cup {NoVersion}, NEW v \in Version, Orderly(v0, v),
         InstallerData, HomeData,
         NEW c \in Container, NEW f \in File, NEW x \in {v, "torn"},
         stage[c] = "unpack", Current(c) \in Package,
         home' = [home EXCEPT ![Current(c)][f] = x],
         alien' = alien, index' = index, dry' = dry,
         f = "package.json" /\ Current(c) \in alien => x = v0,
         writing[c] \in {f, NoFile},
         x = "torn" => stage'[c] = "unpack" /\ writing'[c] = f,
         stage'[c] # "unpack" => \A g \in File : g = f \/ g \in unpacked[c],
         stage'[c] = "unpack" => unpacked'[c] \cup {writing'[c]} \subseteq unpacked[c] \cup {f, NoFile},
         \A d \in Container \ {c} :
             /\ stage'[d] = stage[d]
             /\ writing'[d] = writing[d] /\ unpacked'[d] = unpacked[d]
  PROVE  Orderly(v0, v)'
<1>0. PICK q \in Package : q = Current(c)
  OBVIOUS
<1>1. /\ home'[q][f] = x
      /\ \A p \in Package, g \in File : p # q \/ g # f => home'[p][g] = home[p][g]
  <2>1. x \in Content /\ home' = [home EXCEPT ![q][f] = x]
    BY <1>0 DEF Content
  <2>2. home'[q][f] = x
    BY <2>1 DEF HomeData
  <2>3. \A p \in Package, g \in File : p # q \/ g # f => home'[p][g] = home[p][g]
    BY <2>1, HomeWrite
  <2> QED
    BY <2>2, <2>3
<1>2. Current(c)' = q /\ \A d \in Container : Current(d)' = Current(d)
  BY <1>0 DEF Current
<1>3. x # v0 \/ v0 = v
  BY InstallerAssumption
<1>4. \A p \in Package, g \in File : Touched(v0, v, p, g) => Touched(v0, v, p, g)'
  BY <1>1, <1>3 DEF Touched
<1>5. Touched(v0, v, q, f)'
  BY <1>1, <1>3 DEF Touched
<1>6. \A p \in Package, g \in File :
          p # q \/ g # f => (Touched(v0, v, p, g)' <=> Touched(v0, v, p, g))
  BY <1>1 DEF Touched
<1>7. "package.json" \in File /\ NoFile \notin File /\ f # NoFile
  BY InstallerAssumption
<1>8. \A p \in Package, g \in File :
          /\ home'[p][g] \in {v0, v, "torn"}
          /\ home'[p][g] = "torn" => \E d \in Container : Unpacking(d, p)' /\ writing'[d] = g
  <2> SUFFICES ASSUME NEW p \in Package, NEW g \in File
               PROVE  /\ home'[p][g] \in {v0, v, "torn"}
                      /\ home'[p][g] = "torn" =>
                            \E d \in Container : Unpacking(d, p)' /\ writing'[d] = g
    OBVIOUS
  <2>1. CASE p = q /\ g = f
    <3>1. home'[p][g] = x
      BY <1>1, <2>1
    <3>2. x = "torn" => Unpacking(c, p)' /\ writing'[c] = g
      BY <1>2, <2>1 DEF Unpacking
    <3> QED
      BY <3>1, <3>2
  <2>2. CASE p # q \/ g # f
    <3>1. home'[p][g] = home[p][g] /\ home[p][g] \in {v0, v, "torn"}
      BY <1>1, <2>2 DEF Orderly
    <3>2. ASSUME home[p][g] = "torn"
          PROVE  \E d \in Container : Unpacking(d, p)' /\ writing'[d] = g
      <4>1. PICK d \in Container : Unpacking(d, p) /\ writing[d] = g
        BY <3>2 DEF Orderly
      <4>2. d # c
        BY <1>0, <1>7, <2>2, <4>1 DEF Unpacking
      <4> QED
        BY <1>2, <4>1, <4>2 DEF Unpacking
    <3> QED
      BY <3>1, <3>2
  <2> QED
    BY <2>1, <2>2
<1>9. \A p \in alien' : home'[p]["package.json"] = v0
  <2> SUFFICES ASSUME NEW p \in alien
               PROVE  home'[p]["package.json"] = v0
    OBVIOUS
  <2>1. p \in Package /\ home[p]["package.json"] = v0
    BY DEF Orderly, HomeData
  <2> QED
    BY <1>0, <1>1, <1>7, <2>1
<1>10. \A p \in Package :
          Touched(v0, v, p, "package.json")' =>
              \/ \E d \in Container : Unpacking(d, p)'
              \/ \A g \in File : Touched(v0, v, p, g)'
  <2> SUFFICES ASSUME NEW p \in Package, Touched(v0, v, p, "package.json")',
                      ~ \E d \in Container : Unpacking(d, p)'
               PROVE  \A g \in File : Touched(v0, v, p, g)'
    OBVIOUS
  <2>1. CASE p = q
    <3>1. stage'[c] # "unpack"
      BY <1>2, <2>1 DEF Unpacking
    <3>2. \A g \in File : g = f \/ g \in unpacked[c]
      BY <3>1
    <3>3. \A g \in File : g \in unpacked[c] => Touched(v0, v, q, g)
      BY <1>0, <1>7 DEF Orderly
    <3> QED
      BY <1>4, <1>5, <2>1, <3>2, <3>3
  <2>2. CASE p # q
    <3>1. Touched(v0, v, p, "package.json")
      BY <1>6, <1>7, <2>2
    <3>2. ~ \E d \in Container : Unpacking(d, p)
      <4> SUFFICES ASSUME NEW d \in Container, Unpacking(d, p)
                   PROVE  FALSE
        OBVIOUS
      <4>1. d # c
        BY <1>0, <2>2 DEF Unpacking
      <4> QED
        BY <1>2, <4>1 DEF Unpacking
    <3> QED
      BY <1>4, <3>1, <3>2 DEF Orderly
  <2> QED
    BY <2>1, <2>2
<1>11. \A d \in Container : stage'[d] = "unpack" =>
          \A g \in unpacked'[d] \cup {writing'[d]} :
              g # NoFile => Touched(v0, v, Current(d), g)'
  <2> SUFFICES ASSUME NEW d \in Container, stage'[d] = "unpack",
                      NEW g \in unpacked'[d] \cup {writing'[d]}, g # NoFile
               PROVE  Touched(v0, v, Current(d), g)'
    OBVIOUS
  <2>1. CASE d = c
    <3>1. g = f \/ g \in unpacked[c]
      BY <2>1
    <3>2. CASE g = f
      BY <1>2, <1>5, <2>1, <3>2 DEF Touched
    <3>3. CASE g \in unpacked[c]
      <4>1. g \in File /\ Touched(v0, v, q, g)
        BY <1>0, <1>7, <3>3 DEF Orderly, InstallerData
      <4>2. Touched(v0, v, q, g)'
        BY <1>4, <4>1
      <4> QED
        BY <1>2, <2>1, <4>2 DEF Touched
    <3> QED
      BY <3>1, <3>2, <3>3
  <2>2. CASE d # c
    <3>1. stage[d] = "unpack" /\ g \in unpacked[d] \cup {writing[d]}
      BY <2>2
    <3>2. g \in File /\ Touched(v0, v, Current(d), g)
      BY <3>1 DEF Orderly, InstallerData
    <3>3. Touched(v0, v, Current(d), g)'
      BY <1>2, <1>3, <1>1, <3>2 DEF Touched
    <3> QED
      BY <3>3
  <2> QED
    BY <2>1, <2>2
<1>12. \A d \in Container : ~dry'[d] =>
          \A i \in 1..index'[d] - 1 : Touched(v0, v, Packages[i], "package.json")'
  <2> SUFFICES ASSUME NEW d \in Container, ~dry[d], NEW i \in 1..index[d] - 1
               PROVE  Touched(v0, v, Packages[i], "package.json")'
    OBVIOUS
  <2>1. Packages[i] \in Package
    <3>1. i \in 1..Len(Packages)
      BY PackageFacts DEF InstallerData
    <3> QED
      BY <3>1, PackageFacts
  <2> QED
    BY <1>4, <1>7, <2>1 DEF Orderly
<1> QED
  BY <1>8, <1>9, <1>10, <1>11, <1>12 DEF Orderly

LEMMA OrderlyAct ==
  ASSUME InstallerData, DryType, HomeData, upset \in Nat, NEW c \in Container,
         \A d \in Container : Shape(d), Act(c), upset' = 0,
         NEW v0 \in Version \cup {NoVersion}, NEW v \in Version, Orderly(v0, v),
         stage[c] # "off" => wanted[c] = v
  PROVE  Orderly(v0, v)'
<1>1. Shape(c)
  OBVIOUS
<1>2. \A d \in Container \ {c} :
         /\ stage'[d] = stage[d] /\ dry'[d] = dry[d] /\ index'[d] = index[d]
         /\ writing'[d] = writing[d] /\ unpacked'[d] = unpacked[d]
  BY FrameAct
<1>3. CASE Precheck(c)
  <2>1. /\ stage[c] = "inspect" /\ More(c) /\ home' = home /\ alien' = alien
    BY <1>3, PrecheckOutcomes
  <2>3. CASE Refuse(c)
    <3>1. ~Succeed(c, "ok")
      BY <2>3 DEF Refuse, Succeed, Become, InstallerData
    <3> QED
      BY <2>1, <2>3, <3>1, OrderlyRecorded
  <2>4. CASE Metadata(c) = wanted[c] /\ Succeed(c, "already_installed")
    <3>1. Touched(v0, v, Current(c), "package.json")
      BY <2>1, <2>4 DEF Touched, Metadata
    <3> QED
      BY <2>1, <2>4, <3>1, OrderlyRecorded
  <2>5. CASE dry[c] /\ Succeed(c, "planned")
    BY <2>1, <2>5, OrderlyRecorded
  <2>6. CASE /\ ~dry[c] /\ Become(c, "open")
             /\ UNCHANGED <<wanted, dry, index, held, writing, unpacked, results>>
    <3>1. stage'[c] = "open"
      BY <2>6, StageType DEF Working
    <3> QED
      BY <1>2, <2>1, <2>6, <3>1, OrderlyMoved
  <2> QED
    BY <1>3, <2>3, <2>4, <2>5, <2>6, PrecheckOutcomes
<1>4. CASE Finish(c)
  <2>1. /\ stage[c] = "inspect" /\ stage'[c] # "unpack" /\ dry' = dry /\ index' = index
        /\ home' = home /\ alien' = alien
    BY <1>4 DEF Finish, Become, InstallerData, homeVars
  <2> QED
    BY <1>2, <2>1, OrderlyMoved
<1>5. CASE OpenVerified(c)
  <2>1. stage[c] = "open" /\ More(c) /\ home' = home /\ alien' = alien
    BY <1>1, <1>5 DEF OpenVerified, homeVars, Shape
  <2>2. CASE Refuse(c)
    <3>1. ~Succeed(c, "ok")
      BY <2>2 DEF Refuse, Succeed, Become, InstallerData
    <3> QED
      BY <2>1, <2>2, <3>1, OrderlyRecorded
  <2>3. CASE ~Refuse(c)
    <3>1. dry' = dry /\ index' = index /\ writing' = writing /\ unpacked' = unpacked
      BY <1>5, <2>3 DEF OpenVerified
    <3>2. unpacked[c] = {} /\ writing[c] = NoFile
      BY <1>1, <2>1 DEF Shape
    <3> QED
      BY <1>2, <2>1, <3>1, <3>2, OrderlyMoved
  <2> QED
    BY <2>2, <2>3
<1>6. ASSUME NEW f \in File, OpenMember(c, f)
      PROVE  Orderly(v0, v)'
  <2>1. /\ stage[c] = "unpack" /\ writing[c] = NoFile /\ f \in File \ unpacked[c]
        /\ alien' = alien /\ More(c)
    BY <1>1, <1>6 DEF OpenMember, Shape
  <2>2. CASE f = "package.json" /\ Current(c) \in alien
    <3>1. Refuse(c) /\ home' = home
      BY <1>6, <2>2 DEF OpenMember
    <3>2. ~Succeed(c, "ok")
      BY <3>1 DEF Refuse, Succeed, Become, InstallerData
    <3>3. home[Current(c)]["package.json"] = v0
      BY <2>2 DEF Orderly
    <3>4. \/ \A g \in File : Touched(v0, v, Current(c), g)
          \/ ~Touched(v0, v, Current(c), "package.json")
      BY <3>3 DEF Touched
    <3> QED
      BY <2>1, <3>1, <3>2, <3>4, OrderlyRecorded
  <2>3. CASE ~(f = "package.json" /\ Current(c) \in alien)
    <3>1. /\ home' = [home EXCEPT ![Current(c)][f] = "torn"]
          /\ writing' = [writing EXCEPT ![c] = f]
          /\ stage' = stage /\ index' = index /\ dry' = dry /\ unpacked' = unpacked
      BY <1>6, <2>3 DEF OpenMember
    <3>2. writing'[c] = f
      BY <3>1 DEF InstallerData
    <3>3. Current(c) \in Package
      BY <2>1, CurrentFacts
    <3> QED
      BY <1>2, <2>1, <2>3, <3>1, <3>2, <3>3, OrderlyWritten
  <2> QED
    BY <2>2, <2>3
<1>7. CASE WriteMember(c)
  <2>1. /\ stage[c] = "unpack" /\ writing[c] # NoFile /\ writing[c] \in File
        /\ held[c] = v /\ More(c) /\ alien' = alien /\ index' = index /\ dry' = dry
    BY <1>1, <1>7 DEF WriteMember, Shape, InstallerData
  <2>2. Current(c) \in Package
    BY <2>1, CurrentFacts
  <2>3. /\ home[Current(c)][writing[c]] \in {v0, v, "torn"}
        /\ Touched(v0, v, Current(c), writing[c])
    BY <2>1, <2>2 DEF Orderly
  <2>4. home[Current(c)][writing[c]] \in {"torn", v}
    BY <2>3 DEF Touched
  <2>5. home' = [home EXCEPT ![Current(c)][writing[c]] = v]
    BY <1>7, <2>1, <2>4 DEF WriteMember
  <2>6. writing[c] = "package.json" /\ Current(c) \in alien => v = v0
    BY <2>3 DEF Orderly, Touched
  <2>7. /\ unpacked'[c] = unpacked[c] \cup {writing[c]} /\ writing'[c] = NoFile
        /\ stage'[c] = IF unpacked'[c] = File THEN "check" ELSE "unpack"
    BY <1>7 DEF WriteMember, Become, InstallerData
  <2>8. stage'[c] # "unpack" => \A g \in File : g = writing[c] \/ g \in unpacked[c]
    BY <2>7
  <2>9. unpacked'[c] \cup {writing'[c]} \subseteq unpacked[c] \cup {writing[c], NoFile}
    BY <2>7
  <2>10. v # "torn"
    BY InstallerAssumption
  <2> QED
    BY <1>2, <2>1, <2>2, <2>5, <2>6, <2>8, <2>9, <2>10, OrderlyWritten
<1>8. CASE Check(c)
  <2>1. stage[c] = "check" /\ More(c) /\ home' = home /\ alien' = alien
    BY <1>1, <1>8 DEF Check, homeVars, Shape
  <2>2. CASE Metadata(c) = wanted[c] /\ Current(c) \notin alien
    <3>1. Touched(v0, v, Current(c), "package.json")
      BY <2>1, <2>2 DEF Touched, Metadata
    <3>2. Succeed(c, "ok")
      BY <1>8, <2>2 DEF Check
    <3> QED
      BY <2>1, <3>1, <3>2, OrderlyRecorded
  <2>3. CASE ~(Metadata(c) = wanted[c] /\ Current(c) \notin alien)
    <3>1. Refuse(c)
      BY <1>8, <2>3 DEF Check
    <3>2. ~Succeed(c, "ok")
      BY <3>1 DEF Refuse, Succeed, Become, InstallerData
    <3> QED
      BY <2>1, <3>1, <3>2, OrderlyRecorded
  <2> QED
    BY <2>2, <2>3
<1>9. CASE PlanAgain(c)
  <2>1. /\ stage[c] = "started" /\ stage'[c] = "inspect" /\ home' = home /\ alien' = alien
    BY <1>9 DEF PlanAgain, Become, InstallerData, homeVars
  <2>2. dry'[c] = TRUE
    BY <1>9, Zenon DEF PlanAgain, DryType
  <2> QED
    BY <1>2, <2>1, <2>2, OrderlyMoved
<1>10. ~UnpackFails(c) /\ ~KillContainer(c)
  BY DEF UnpackFails, KillContainer, Upset
<1> QED
  BY <1>3, <1>4, <1>5, <1>6, <1>7, <1>8, <1>9, <1>10 DEF Act, InstallerStep

-----------------------------------------------------------------------------
(* The installers of all launches.                                         *)
LEMMA ActStages ==
  ASSUME InstallerData, NEW c \in Container, Shape(c), Act(c), upset \in 0..InstallFaults
  PROVE  /\ stage[c] # "off" /\ upset' \in 0..InstallFaults
         /\ upset' = 0 => upset = 0
<1>1. InstallFaults \in Nat
  BY InstallerAssumption
<1>2. \/ stage[c] \in Working \cup {"started"} /\ upset' = upset
      \/ /\ stage[c] \in Working \cup {"started"}
         /\ upset < InstallFaults /\ upset' = upset + 1
  BY PrecheckOutcomes DEF Act, InstallerStep, Finish, OpenVerified, OpenMember,
      WriteMember, Check, PlanAgain, UnpackFails, KillContainer, Working, Upset
<1> QED
  BY <1>1, <1>2 DEF Working

LEMMA InstallAct ==
  ASSUME InstallerData, DryType, HomeData, upset \in 0..InstallFaults,
         NEW c \in Container, pc' = pc, Act(c), InstallInv
  PROVE  /\ InstallerData' /\ DryType' /\ HomeData' /\ upset' \in 0..InstallFaults
         /\ InstallInv'
<1>1. \A d \in Container : Shape(d)
  BY DEF InstallInv
<1>2. InstallerData' /\ DryType' /\ HomeData' /\ \A d \in Container : Shape(d)'
  BY <1>1, ShapesAct
<1>3. stage[c] # "off" /\ upset' \in 0..InstallFaults /\ (upset' = 0 => upset = 0)
  BY <1>1, ActStages
<1>4. upset \in Nat
  BY InstallerAssumption
<1>5. wanted' = wanted /\ \A d \in Container \ {c} : stage'[d] = stage[d]
  BY FrameAct
<1>6. stage'[c] # "off"
  <2>1. CASE Refuse(c)
    BY <2>1, StageType DEF Refuse
  <2>2. CASE \E o : Succeed(c, o)
    BY <2>2, StageType DEF Succeed, Working
  <2>3. CASE ~Refuse(c) /\ ~ \E o : Succeed(c, o)
    BY <1>3, <2>3, StageType, PrecheckOutcomes
       DEF Act, InstallerStep, Finish, OpenVerified, OpenMember, WriteMember, Check,
           PlanAgain, UnpackFails, KillContainer, Working
  <2> QED
    BY <2>1, <2>2, <2>3
<1>7. PICK v0 \in Version \cup {NoVersion} : \A v \in Version : Agreed(v) => Orderly(v0, v)
  BY DEF InstallInv
<1>8. ASSUME NEW v \in Version, Agreed(v)'
      PROVE  Orderly(v0, v)'
  <2>1. upset' = 0 /\ \A d \in Container : stage'[d] # "off" => wanted[d] = v
    BY <1>5, <1>8 DEF Agreed
  <2>2. Agreed(v) /\ wanted[c] = v
    BY <1>3, <1>5, <1>6, <2>1 DEF Agreed
  <2>3. Orderly(v0, v)
    BY <1>7, <2>2
  <2> QED
    BY <1>1, <1>4, <2>1, <2>2, <2>3, OrderlyAct
<1> QED
  BY <1>2, <1>3, <1>8 DEF InstallInv

(* A launch that does not touch the Pi home or an installer.               *)
LEMMA InstallStill ==
  ASSUME InstallerData, DryType, HomeData, InstallInv,
         UNCHANGED <<stage, wanted, dry, index, held, writing, unpacked, results, home, alien>>,
         upset' = upset \/ upset' # 0, damaged' \subseteq Version,
         \A c \in Container : pc'[c] \in BeforeDocker => pc[c] \in BeforeDocker
  PROVE  InstallerData' /\ DryType' /\ HomeData' /\ InstallInv'
<1>1. InstallerData'
  BY DEF InstallerData
<1>2. DryType' /\ HomeData'
  BY DEF DryType, HomeData
<1>3. \A c \in Container : Shape(c)'
  BY DEF Shape, InstallInv, More
<1>4. PICK v0 \in Version \cup {NoVersion} : \A v \in Version : Agreed(v) => Orderly(v0, v)
  BY DEF InstallInv
<1>5. ASSUME NEW v \in Version, Agreed(v)'
      PROVE  Orderly(v0, v)'
  <2>1. Orderly(v0, v)
    BY <1>4, <1>5 DEF Agreed
  <2> QED
    BY <2>1 DEF Orderly, Touched, Unpacking, Current
<1> QED
  BY <1>1, <1>2, <1>3, <1>5 DEF InstallInv

LEMMA InstallBegins ==
  ASSUME InstallerData, DryType, HomeData, InstallInv, NEW c \in Container,
         pc[c] = "run", Begin(c), home' = home, alien' = alien, damaged' = damaged,
         upset' = upset,
         pc'[c] = "attached", \A d \in Container \ {c} : pc'[d] = pc[d]
  PROVE  InstallerData' /\ DryType' /\ HomeData' /\ InstallInv'
<1>1. /\ stage'[c] = "inspect" /\ \A d \in Container \ {c} : stage'[d] = stage[d]
      /\ UNCHANGED <<wanted, dry, index, held, writing, unpacked, results>>
  BY StageType DEF Begin, Working
<1>2. InstallerData'
  BY <1>1, StageType DEF InstallerData, Begin, Working
<1>3. DryType' /\ HomeData'
  BY <1>1 DEF DryType, HomeData
<1>4. Shape(c) /\ stage[c] = "off"
  BY DEF InstallInv, Shape, BeforeDocker
<1>5. Shape(c)'
  <2>1. /\ unpacked[c] = {} /\ writing[c] = NoFile /\ Len(results[c]) = index[c] - 1
    BY <1>4 DEF Shape
  <2>2. pc'[c] \notin BeforeDocker
    BY DEF BeforeDocker, Resolving
  <2> QED
    BY <1>1, <2>1, <2>2 DEF Shape
<1>6. \A d \in Container \ {c} : Shape(d)'
  BY <1>1, ShapeStays DEF InstallInv
<1>7. PICK v0 \in Version \cup {NoVersion} : \A v \in Version : Agreed(v) => Orderly(v0, v)
  BY DEF InstallInv
<1>8. ASSUME NEW v \in Version, Agreed(v)'
      PROVE  Orderly(v0, v)'
  <2>1. Agreed(v)
    BY <1>1, <1>4, <1>8 DEF Agreed
  <2>2. Orderly(v0, v)
    BY <1>7, <2>1
  <2> QED
    BY <1>1, <1>4, <2>2, OrderlyMoved
<1> QED
  BY <1>2, <1>3, <1>5, <1>6, <1>8 DEF InstallInv

-----------------------------------------------------------------------------
(* The launcher.                                                           *)
LaunchData ==
    /\ scratch \in [User -> {"none", "private", "readable"}]
    /\ projection \in [User -> {"none", "private", "readable"}]
    /\ name \in [User -> 0..Cardinality(User) + 1]
LaunchFlags == running \in [User -> BOOLEAN] /\ failing \in [User -> BOOLEAN]

LEMMA TypeParts ==
  TypeOK <=> /\ StateData /\ CreateType /\ PcType
             /\ InstallerData /\ DryType /\ HomeData /\ upset \in 0..InstallFaults
             /\ LaunchData /\ LaunchFlags
BY Zenon DEF TypeOK, StateTypeOK, InstallTypeOK, StateData, CreateType, PcType,
   InstallerData, DryType, HomeData, LaunchData, LaunchFlags

LEMMA TypeNext ==
  ASSUME StateData', CreateType', PcType', InstallerData', DryType', HomeData',
         upset' \in 0..InstallFaults, LaunchData', LaunchFlags'
  PROVE  TypeOK'
BY Zenon DEF TypeOK, StateTypeOK, InstallTypeOK, StateData, CreateType, PcType,
   InstallerData, DryType, HomeData, LaunchData, LaunchFlags

(* Among as many names as there are users and one, one is free.            *)
LEMMA LeastFree ==
  ASSUME NEW N \in Nat, NEW T, IsFiniteSet(T), Cardinality(T) <= N
  PROVE  \E n \in 1..N + 1 : n \notin T /\ \A m \in 1..n - 1 : m \in T
<1> DEFINE F == (1..N + 1) \ T
<1>1. F # {}
  <2> SUFFICES ASSUME 1..N + 1 \subseteq T
               PROVE  FALSE
    OBVIOUS
  <2>1. Cardinality(1..N + 1) = N + 1
    BY FS_Interval
  <2>2. Cardinality(1..N + 1) <= Cardinality(T) /\ Cardinality(T) \in Nat
    BY FS_Subset, FS_CardinalityType
  <2> QED
    BY <2>1, <2>2
<1>2. F \subseteq Nat
  OBVIOUS
<1>3. PICK n \in F : \A m \in F : ~(<<m, n>> \in OpToRel(<, Nat))
  BY <1>1, <1>2, NatLessThanWellFounded, WFMin
<1>4. \A m \in F : ~(m < n)
  BY <1>2, <1>3 DEF OpToRel
<1>5. \A m \in 1..n - 1 : m \in 1..N + 1 /\ m < n
  <2>1. n \in 1..N + 1
    BY <1>3
  <2> QED
    BY <2>1
<1> QED
  BY <1>3, <1>4, <1>5

LEMMA NameFree ==
  ASSUME running \in [User -> BOOLEAN]
  PROVE  \E n \in 1..Cardinality(User) + 1 :
            n \notin Taken /\ \A m \in 1..n - 1 : m \in Taken
<1> DEFINE R == {v \in User : running[v]}
           f == [v \in R |-> name[v]]
<1>1. IsFiniteSet(User) /\ Cardinality(User) \in Nat
  BY LaunchAssumption, FS_CardinalityType
<1>2. IsFiniteSet(R) /\ Cardinality(R) <= Cardinality(User) /\ Cardinality(R) \in Nat
  BY <1>1, FS_Subset, FS_CardinalityType
<1>3. f \in Surjection(R, Taken)
  BY DEF Surjection, Taken
<1>4. IsFiniteSet(Taken) /\ Cardinality(Taken) <= Cardinality(R)
      /\ Cardinality(Taken) \in Nat
  BY <1>2, <1>3, FS_Surjection, FS_CardinalityType
<1> HIDE DEF R
<1> QED
  BY <1>1, <1>2, <1>4, LeastFree

(* A step of the launcher moves on, never back to where it resolved.       *)
LEMMA LauncherMoves ==
  ASSUME PcType, NEW u \in User, LauncherStep(u) \/ ContainerEnds(u)
  PROVE  /\ UNCHANGED <<at, create, attempt, cause, late, dir, metadata, temporary>>
         /\ \/ pc' = pc
            \/ \E s \in (Launching \cup Ended) \ {"resolved"} : Goto(u, s)
         /\ pc'[u] \in BeforeDocker => pc[u] \in BeforeDocker
<1>1. CASE RejectRequest(u)
  BY <1>1
    DEF RejectRequest, Only, StateSame, Goto, Launching, Ended, BeforeDocker,
        Resolving, diskVars, PcType
<1>2. CASE PrintPlan(u)
  BY <1>2
    DEF PrintPlan, Only, StateSame, Goto, Launching, Ended, BeforeDocker,
        Resolving, diskVars, PcType
<1>3. CASE Materialize(u)
  BY <1>3
    DEF Materialize, Only, StateSame, Goto, Launching, Ended, BeforeDocker,
        Resolving, diskVars, PcType
<1>4. CASE CreateScratch(u)
  BY <1>4
    DEF CreateScratch, Only, StateSame, Goto, Launching, Ended, BeforeDocker,
        Resolving, diskVars, PcType
<1>5. CASE WriteScratch(u)
  BY <1>5
    DEF WriteScratch, Only, StateSame, Goto, Launching, Ended, BeforeDocker,
        Resolving, diskVars, PcType
<1>6. CASE LinkProjection(u)
  BY <1>6
    DEF LinkProjection, Only, StateSame, Goto, Launching, Ended, BeforeDocker,
        Resolving, diskVars, PcType
<1>7. CASE UnlinkScratch(u)
  BY <1>7
    DEF UnlinkScratch, Only, StateSame, Goto, Launching, Ended, BeforeDocker,
        Resolving, diskVars, PcType
<1>8. CASE AllocateName(u)
  BY <1>8
    DEF AllocateName, Only, StateSame, Goto, Launching, Ended, BeforeDocker,
        Resolving, diskVars, PcType
<1>9. CASE DockerRun(u)
  BY <1>9
    DEF DockerRun, StateSame, Goto, Launching, Ended, BeforeDocker, Resolving,
        diskVars, PcType
<1>10. CASE Cleanup(u)
  BY <1>10
    DEF Cleanup, Only, StateSame, Goto, Launching, Ended, BeforeDocker,
        Resolving, diskVars, PcType
<1>11. CASE StepFails(u)
  BY <1>11
    DEF StepFails, Fault, Goto, Launching, Ended, BeforeDocker, Resolving,
        diskVars, PcType
<1>12. CASE Interrupt(u)
  BY <1>12
    DEF Interrupt, Fault, Goto, Launching, Ended, BeforeDocker, Resolving,
        diskVars, PcType
<1>13. CASE KillLauncher(u)
  BY <1>13
    DEF KillLauncher, Fault, Goto, Launching, Ended, BeforeDocker, Resolving,
        diskVars, PcType
<1>14. CASE ContainerEnds(u)
  BY <1>14
    DEF ContainerEnds, StateSame, Goto, Launching, Ended, BeforeDocker,
        Resolving, diskVars, PcType
<1> QED
  BY <1>1, <1>2, <1>3, <1>4, <1>5, <1>6, <1>7, <1>8, <1>9, <1>10, <1>11,
     <1>12, <1>13, <1>14 DEF LauncherStep

LEMMA LauncherTypes ==
  ASSUME LaunchData, LaunchFlags, NEW u \in User,
         LauncherStep(u) \/ ContainerEnds(u)
  PROVE  LaunchData' /\ LaunchFlags'
<1>1. CASE RejectRequest(u)
  <2>1. scratch' \in [User -> {"none", "private", "readable"}]
    BY <1>1 DEF RejectRequest, Only, StateSame, Goto, launchVars, LaunchData
  <2>2. projection' \in [User -> {"none", "private", "readable"}]
    BY <1>1 DEF RejectRequest, Only, StateSame, Goto, launchVars, LaunchData
  <2>3. name' \in [User -> 0..Cardinality(User) + 1]
    BY <1>1 DEF RejectRequest, Only, StateSame, Goto, launchVars, LaunchData
  <2>4. running' \in [User -> BOOLEAN]
    BY <1>1 DEF RejectRequest, Only, StateSame, Goto, launchVars, LaunchFlags
  <2>5. failing' \in [User -> BOOLEAN]
    BY <1>1 DEF RejectRequest, Only, StateSame, Goto, launchVars, LaunchFlags
  <2> QED
    BY <2>1, <2>2, <2>3, <2>4, <2>5 DEF LaunchData, LaunchFlags
<1>2. CASE PrintPlan(u)
  <2>1. scratch' \in [User -> {"none", "private", "readable"}]
    BY <1>2 DEF PrintPlan, Only, StateSame, Goto, launchVars, LaunchData
  <2>2. projection' \in [User -> {"none", "private", "readable"}]
    BY <1>2 DEF PrintPlan, Only, StateSame, Goto, launchVars, LaunchData
  <2>3. name' \in [User -> 0..Cardinality(User) + 1]
    BY <1>2 DEF PrintPlan, Only, StateSame, Goto, launchVars, LaunchData
  <2>4. running' \in [User -> BOOLEAN]
    BY <1>2 DEF PrintPlan, Only, StateSame, Goto, launchVars, LaunchFlags
  <2>5. failing' \in [User -> BOOLEAN]
    BY <1>2 DEF PrintPlan, Only, StateSame, Goto, launchVars, LaunchFlags
  <2> QED
    BY <2>1, <2>2, <2>3, <2>4, <2>5 DEF LaunchData, LaunchFlags
<1>3. CASE Materialize(u)
  <2>1. scratch' \in [User -> {"none", "private", "readable"}]
    BY <1>3 DEF Materialize, Only, StateSame, Goto, launchVars, LaunchData
  <2>2. projection' \in [User -> {"none", "private", "readable"}]
    BY <1>3 DEF Materialize, Only, StateSame, Goto, launchVars, LaunchData
  <2>3. name' \in [User -> 0..Cardinality(User) + 1]
    BY <1>3 DEF Materialize, Only, StateSame, Goto, launchVars, LaunchData
  <2>4. running' \in [User -> BOOLEAN]
    BY <1>3 DEF Materialize, Only, StateSame, Goto, launchVars, LaunchFlags
  <2>5. failing' \in [User -> BOOLEAN]
    BY <1>3 DEF Materialize, Only, StateSame, Goto, launchVars, LaunchFlags
  <2> QED
    BY <2>1, <2>2, <2>3, <2>4, <2>5 DEF LaunchData, LaunchFlags
<1>4. CASE CreateScratch(u)
  <2>1. scratch' \in [User -> {"none", "private", "readable"}]
    BY <1>4 DEF CreateScratch, Only, StateSame, Goto, launchVars, LaunchData
  <2>2. projection' \in [User -> {"none", "private", "readable"}]
    BY <1>4 DEF CreateScratch, Only, StateSame, Goto, launchVars, LaunchData
  <2>3. name' \in [User -> 0..Cardinality(User) + 1]
    BY <1>4 DEF CreateScratch, Only, StateSame, Goto, launchVars, LaunchData
  <2>4. running' \in [User -> BOOLEAN]
    BY <1>4 DEF CreateScratch, Only, StateSame, Goto, launchVars, LaunchFlags
  <2>5. failing' \in [User -> BOOLEAN]
    BY <1>4 DEF CreateScratch, Only, StateSame, Goto, launchVars, LaunchFlags
  <2> QED
    BY <2>1, <2>2, <2>3, <2>4, <2>5 DEF LaunchData, LaunchFlags
<1>5. CASE WriteScratch(u)
  <2>1. scratch' \in [User -> {"none", "private", "readable"}]
    BY <1>5 DEF WriteScratch, Only, StateSame, Goto, launchVars, LaunchData
  <2>2. projection' \in [User -> {"none", "private", "readable"}]
    BY <1>5 DEF WriteScratch, Only, StateSame, Goto, launchVars, LaunchData
  <2>3. name' \in [User -> 0..Cardinality(User) + 1]
    BY <1>5 DEF WriteScratch, Only, StateSame, Goto, launchVars, LaunchData
  <2>4. running' \in [User -> BOOLEAN]
    BY <1>5 DEF WriteScratch, Only, StateSame, Goto, launchVars, LaunchFlags
  <2>5. failing' \in [User -> BOOLEAN]
    BY <1>5 DEF WriteScratch, Only, StateSame, Goto, launchVars, LaunchFlags
  <2> QED
    BY <2>1, <2>2, <2>3, <2>4, <2>5 DEF LaunchData, LaunchFlags
<1>6. CASE LinkProjection(u)
  <2>1. scratch' \in [User -> {"none", "private", "readable"}]
    BY <1>6 DEF LinkProjection, Only, StateSame, Goto, launchVars, LaunchData
  <2>2. projection' \in [User -> {"none", "private", "readable"}]
    BY <1>6 DEF LinkProjection, Only, StateSame, Goto, launchVars, LaunchData
  <2>3. name' \in [User -> 0..Cardinality(User) + 1]
    BY <1>6 DEF LinkProjection, Only, StateSame, Goto, launchVars, LaunchData
  <2>4. running' \in [User -> BOOLEAN]
    BY <1>6 DEF LinkProjection, Only, StateSame, Goto, launchVars, LaunchFlags
  <2>5. failing' \in [User -> BOOLEAN]
    BY <1>6 DEF LinkProjection, Only, StateSame, Goto, launchVars, LaunchFlags
  <2> QED
    BY <2>1, <2>2, <2>3, <2>4, <2>5 DEF LaunchData, LaunchFlags
<1>7. CASE UnlinkScratch(u)
  <2>1. scratch' \in [User -> {"none", "private", "readable"}]
    BY <1>7 DEF UnlinkScratch, Only, StateSame, Goto, launchVars, LaunchData
  <2>2. projection' \in [User -> {"none", "private", "readable"}]
    BY <1>7 DEF UnlinkScratch, Only, StateSame, Goto, launchVars, LaunchData
  <2>3. name' \in [User -> 0..Cardinality(User) + 1]
    BY <1>7 DEF UnlinkScratch, Only, StateSame, Goto, launchVars, LaunchData
  <2>4. running' \in [User -> BOOLEAN]
    BY <1>7 DEF UnlinkScratch, Only, StateSame, Goto, launchVars, LaunchFlags
  <2>5. failing' \in [User -> BOOLEAN]
    BY <1>7 DEF UnlinkScratch, Only, StateSame, Goto, launchVars, LaunchFlags
  <2> QED
    BY <2>1, <2>2, <2>3, <2>4, <2>5 DEF LaunchData, LaunchFlags
<1>8. CASE AllocateName(u)
  <2>1. scratch' \in [User -> {"none", "private", "readable"}]
    BY <1>8 DEF AllocateName, Only, StateSame, Goto, launchVars, LaunchData
  <2>2. projection' \in [User -> {"none", "private", "readable"}]
    BY <1>8 DEF AllocateName, Only, StateSame, Goto, launchVars, LaunchData
  <2>3. name' \in [User -> 0..Cardinality(User) + 1]
    <3>1. \E n \in 1..Cardinality(User) + 1 :
             n \notin Taken /\ \A m \in 1..n - 1 : m \in Taken
      BY NameFree DEF LaunchFlags
    <3>2. \E n \in 1..Cardinality(User) + 1 : name' = [name EXCEPT ![u] = n]
      BY <3>1, <1>8 DEF AllocateName
    <3>3. Cardinality(User) \in Nat
      BY LaunchAssumption, FS_CardinalityType
    <3> QED
      BY <3>2, <3>3 DEF LaunchData
  <2>4. running' \in [User -> BOOLEAN]
    BY <1>8 DEF AllocateName, Only, StateSame, Goto, launchVars, LaunchFlags
  <2>5. failing' \in [User -> BOOLEAN]
    BY <1>8 DEF AllocateName, Only, StateSame, Goto, launchVars, LaunchFlags
  <2> QED
    BY <2>1, <2>2, <2>3, <2>4, <2>5 DEF LaunchData, LaunchFlags
<1>9. CASE DockerRun(u)
  <2>1. scratch' \in [User -> {"none", "private", "readable"}]
    BY <1>9 DEF DockerRun, StateSame, Goto, launchVars, LaunchData
  <2>2. projection' \in [User -> {"none", "private", "readable"}]
    BY <1>9 DEF DockerRun, StateSame, Goto, launchVars, LaunchData
  <2>3. name' \in [User -> 0..Cardinality(User) + 1]
    BY <1>9 DEF DockerRun, StateSame, Goto, launchVars, LaunchData
  <2>4. running' \in [User -> BOOLEAN]
    <3>1. running' = running \/ running' = [running EXCEPT ![u] = TRUE]
      BY <1>9 DEF DockerRun, StateSame, Goto
    <3> QED
      BY <3>1, Zenon DEF LaunchFlags
  <2>5. failing' \in [User -> BOOLEAN]
    <3>1. failing' = failing \/ failing' = [failing EXCEPT ![u] = TRUE]
      BY <1>9 DEF DockerRun, StateSame, Goto
    <3> QED
      BY <3>1, Zenon DEF LaunchFlags
  <2> QED
    BY <2>1, <2>2, <2>3, <2>4, <2>5 DEF LaunchData, LaunchFlags
<1>10. CASE Cleanup(u)
  <2>1. scratch' \in [User -> {"none", "private", "readable"}]
    BY <1>10 DEF Cleanup, Only, StateSame, Goto, launchVars, LaunchData
  <2>2. projection' \in [User -> {"none", "private", "readable"}]
    BY <1>10 DEF Cleanup, Only, StateSame, Goto, launchVars, LaunchData
  <2>3. name' \in [User -> 0..Cardinality(User) + 1]
    BY <1>10 DEF Cleanup, Only, StateSame, Goto, launchVars, LaunchData
  <2>4. running' \in [User -> BOOLEAN]
    BY <1>10 DEF Cleanup, Only, StateSame, Goto, launchVars, LaunchFlags
  <2>5. failing' \in [User -> BOOLEAN]
    BY <1>10 DEF Cleanup, Only, StateSame, Goto, launchVars, LaunchFlags
  <2> QED
    BY <2>1, <2>2, <2>3, <2>4, <2>5 DEF LaunchData, LaunchFlags
<1>11. CASE StepFails(u)
  <2>1. scratch' \in [User -> {"none", "private", "readable"}]
    BY <1>11 DEF StepFails, Fault, Goto, launchVars, LaunchData
  <2>2. projection' \in [User -> {"none", "private", "readable"}]
    BY <1>11 DEF StepFails, Fault, Goto, launchVars, LaunchData
  <2>3. name' \in [User -> 0..Cardinality(User) + 1]
    BY <1>11 DEF StepFails, Fault, Goto, launchVars, LaunchData
  <2>4. running' \in [User -> BOOLEAN]
    BY <1>11 DEF StepFails, Fault, Goto, launchVars, LaunchFlags
  <2>5. failing' \in [User -> BOOLEAN]
    <3>1. failing' = failing \/ failing' = [failing EXCEPT ![u] = TRUE]
      BY <1>11 DEF StepFails, Fault, Goto
    <3> QED
      BY <3>1, Zenon DEF LaunchFlags
  <2> QED
    BY <2>1, <2>2, <2>3, <2>4, <2>5 DEF LaunchData, LaunchFlags
<1>12. CASE Interrupt(u)
  <2>1. scratch' \in [User -> {"none", "private", "readable"}]
    BY <1>12 DEF Interrupt, Fault, Goto, launchVars, LaunchData
  <2>2. projection' \in [User -> {"none", "private", "readable"}]
    BY <1>12 DEF Interrupt, Fault, Goto, launchVars, LaunchData
  <2>3. name' \in [User -> 0..Cardinality(User) + 1]
    BY <1>12 DEF Interrupt, Fault, Goto, launchVars, LaunchData
  <2>4. running' \in [User -> BOOLEAN]
    BY <1>12 DEF Interrupt, Fault, Goto, launchVars, LaunchFlags
  <2>5. failing' \in [User -> BOOLEAN]
    BY <1>12 DEF Interrupt, Fault, Goto, launchVars, LaunchFlags
  <2> QED
    BY <2>1, <2>2, <2>3, <2>4, <2>5 DEF LaunchData, LaunchFlags
<1>13. CASE KillLauncher(u)
  <2>1. scratch' \in [User -> {"none", "private", "readable"}]
    BY <1>13 DEF KillLauncher, Fault, Goto, launchVars, LaunchData
  <2>2. projection' \in [User -> {"none", "private", "readable"}]
    BY <1>13 DEF KillLauncher, Fault, Goto, launchVars, LaunchData
  <2>3. name' \in [User -> 0..Cardinality(User) + 1]
    BY <1>13 DEF KillLauncher, Fault, Goto, launchVars, LaunchData
  <2>4. running' \in [User -> BOOLEAN]
    BY <1>13 DEF KillLauncher, Fault, Goto, launchVars, LaunchFlags
  <2>5. failing' \in [User -> BOOLEAN]
    BY <1>13 DEF KillLauncher, Fault, Goto, launchVars, LaunchFlags
  <2> QED
    BY <2>1, <2>2, <2>3, <2>4, <2>5 DEF LaunchData, LaunchFlags
<1>14. CASE ContainerEnds(u)
  <2>1. scratch' \in [User -> {"none", "private", "readable"}]
    BY <1>14 DEF ContainerEnds, StateSame, Goto, launchVars, LaunchData
  <2>2. projection' \in [User -> {"none", "private", "readable"}]
    BY <1>14 DEF ContainerEnds, StateSame, Goto, launchVars, LaunchData
  <2>3. name' \in [User -> 0..Cardinality(User) + 1]
    BY <1>14 DEF ContainerEnds, StateSame, Goto, launchVars, LaunchData
  <2>4. running' \in [User -> BOOLEAN]
    <3>1. running' = running \/ running' = [running EXCEPT ![u] = FALSE]
      BY <1>14 DEF ContainerEnds, StateSame, Goto
    <3> QED
      BY <3>1, Zenon DEF LaunchFlags
  <2>5. failing' \in [User -> BOOLEAN]
    <3>1. failing' = failing \/ \E code : failing' = [failing EXCEPT ![u] = code # 0]
      BY <1>14 DEF ContainerEnds
    <3> QED
      BY <3>1, Zenon DEF LaunchFlags
  <2> QED
    BY <2>1, <2>2, <2>3, <2>4, <2>5 DEF LaunchData, LaunchFlags
<1> QED
  BY <1>1, <1>2, <1>3, <1>4, <1>5, <1>6, <1>7, <1>8, <1>9, <1>10, <1>11,
     <1>12, <1>13, <1>14 DEF LauncherStep

LEMMA LauncherHandles ==
  ASSUME LaunchData, PcType, \A w \in User : Handle(w), NEW u \in User,
         LauncherStep(u) \/ ContainerEnds(u)
  PROVE  \A w \in User : Handle(w)'
<1>1. CASE RejectRequest(u)
  <2>1. Handle(u)'
    BY <1>1
      DEF RejectRequest, Only, StateSame, Goto, launchVars, LaunchData,
          PcType, Handle, Resolving, Launching
  <2>2. \A w \in User \ {u} : /\ pc'[w] = pc[w] /\ scratch'[w] = scratch[w]
                            /\ projection'[w] = projection[w]
    BY <1>1
      DEF RejectRequest, Only, StateSame, Goto, launchVars, LaunchData, PcType
  <2> QED
    BY <2>1, <2>2 DEF Handle
<1>2. CASE PrintPlan(u)
  <2>1. Handle(u)'
    BY <1>2
      DEF PrintPlan, Only, StateSame, Goto, launchVars, LaunchData, PcType,
          Handle, Resolving, Launching
  <2>2. \A w \in User \ {u} : /\ pc'[w] = pc[w] /\ scratch'[w] = scratch[w]
                            /\ projection'[w] = projection[w]
    BY <1>2
      DEF PrintPlan, Only, StateSame, Goto, launchVars, LaunchData, PcType
  <2> QED
    BY <2>1, <2>2 DEF Handle
<1>3. CASE Materialize(u)
  <2>1. Handle(u)'
    BY <1>3
      DEF Materialize, Only, StateSame, Goto, launchVars, LaunchData, PcType,
          Handle, Resolving, Launching
  <2>2. \A w \in User \ {u} : /\ pc'[w] = pc[w] /\ scratch'[w] = scratch[w]
                            /\ projection'[w] = projection[w]
    BY <1>3
      DEF Materialize, Only, StateSame, Goto, launchVars, LaunchData, PcType
  <2> QED
    BY <2>1, <2>2 DEF Handle
<1>4. CASE CreateScratch(u)
  <2>1. Handle(u)'
    BY <1>4
      DEF CreateScratch, Only, StateSame, Goto, launchVars, LaunchData,
          PcType, Handle, Resolving, Launching
  <2>2. \A w \in User \ {u} : /\ pc'[w] = pc[w] /\ scratch'[w] = scratch[w]
                            /\ projection'[w] = projection[w]
    BY <1>4
      DEF CreateScratch, Only, StateSame, Goto, launchVars, LaunchData, PcType
  <2> QED
    BY <2>1, <2>2 DEF Handle
<1>5. CASE WriteScratch(u)
  <2>1. Handle(u)'
    BY <1>5
      DEF WriteScratch, Only, StateSame, Goto, launchVars, LaunchData, PcType,
          Handle, Resolving, Launching
  <2>2. \A w \in User \ {u} : /\ pc'[w] = pc[w] /\ scratch'[w] = scratch[w]
                            /\ projection'[w] = projection[w]
    BY <1>5
      DEF WriteScratch, Only, StateSame, Goto, launchVars, LaunchData, PcType
  <2> QED
    BY <2>1, <2>2 DEF Handle
<1>6. CASE LinkProjection(u)
  <2>1. Handle(u)'
    BY <1>6
      DEF LinkProjection, Only, StateSame, Goto, launchVars, LaunchData,
          PcType, Handle, Resolving, Launching
  <2>2. \A w \in User \ {u} : /\ pc'[w] = pc[w] /\ scratch'[w] = scratch[w]
                            /\ projection'[w] = projection[w]
    BY <1>6
      DEF LinkProjection, Only, StateSame, Goto, launchVars, LaunchData,
          PcType
  <2> QED
    BY <2>1, <2>2 DEF Handle
<1>7. CASE UnlinkScratch(u)
  <2>1. Handle(u)'
    BY <1>7
      DEF UnlinkScratch, Only, StateSame, Goto, launchVars, LaunchData,
          PcType, Handle, Resolving, Launching
  <2>2. \A w \in User \ {u} : /\ pc'[w] = pc[w] /\ scratch'[w] = scratch[w]
                            /\ projection'[w] = projection[w]
    BY <1>7
      DEF UnlinkScratch, Only, StateSame, Goto, launchVars, LaunchData, PcType
  <2> QED
    BY <2>1, <2>2 DEF Handle
<1>8. CASE AllocateName(u)
  <2>1. Handle(u)'
    BY <1>8
      DEF AllocateName, Only, StateSame, Goto, launchVars, LaunchData, PcType,
          Handle, Resolving, Launching
  <2>2. \A w \in User \ {u} : /\ pc'[w] = pc[w] /\ scratch'[w] = scratch[w]
                            /\ projection'[w] = projection[w]
    BY <1>8
      DEF AllocateName, Only, StateSame, Goto, launchVars, LaunchData, PcType
  <2> QED
    BY <2>1, <2>2 DEF Handle
<1>9. CASE DockerRun(u)
  <2>1. Handle(u)'
    BY <1>9
      DEF DockerRun, StateSame, Goto, launchVars, LaunchData, PcType, Handle,
          Resolving, Launching
  <2>2. \A w \in User \ {u} : /\ pc'[w] = pc[w] /\ scratch'[w] = scratch[w]
                            /\ projection'[w] = projection[w]
    BY <1>9 DEF DockerRun, StateSame, Goto, launchVars, LaunchData, PcType
  <2> QED
    BY <2>1, <2>2 DEF Handle
<1>10. CASE Cleanup(u)
  <2>1. Handle(u)'
    BY <1>10
      DEF Cleanup, Only, StateSame, Goto, launchVars, LaunchData, PcType,
          Handle, Resolving, Launching
  <2>2. \A w \in User \ {u} : /\ pc'[w] = pc[w] /\ scratch'[w] = scratch[w]
                            /\ projection'[w] = projection[w]
    BY <1>10
      DEF Cleanup, Only, StateSame, Goto, launchVars, LaunchData, PcType
  <2> QED
    BY <2>1, <2>2 DEF Handle
<1>11. CASE StepFails(u)
  <2>1. Handle(u)'
    BY <1>11
      DEF StepFails, Fault, Goto, launchVars, LaunchData, PcType, Handle,
          Resolving, Launching
  <2>2. \A w \in User \ {u} : /\ pc'[w] = pc[w] /\ scratch'[w] = scratch[w]
                            /\ projection'[w] = projection[w]
    BY <1>11 DEF StepFails, Fault, Goto, launchVars, LaunchData, PcType
  <2> QED
    BY <2>1, <2>2 DEF Handle
<1>12. CASE Interrupt(u)
  <2>1. Handle(u)'
    BY <1>12
      DEF Interrupt, Fault, Goto, launchVars, LaunchData, PcType, Handle,
          Resolving, Launching
  <2>2. \A w \in User \ {u} : /\ pc'[w] = pc[w] /\ scratch'[w] = scratch[w]
                            /\ projection'[w] = projection[w]
    BY <1>12 DEF Interrupt, Fault, Goto, launchVars, LaunchData, PcType
  <2> QED
    BY <2>1, <2>2 DEF Handle
<1>13. CASE KillLauncher(u)
  <2>1. Handle(u)'
    BY <1>13
      DEF KillLauncher, Fault, Goto, launchVars, LaunchData, PcType, Handle,
          Resolving, Launching
  <2>2. \A w \in User \ {u} : /\ pc'[w] = pc[w] /\ scratch'[w] = scratch[w]
                            /\ projection'[w] = projection[w]
    BY <1>13 DEF KillLauncher, Fault, Goto, launchVars, LaunchData, PcType
  <2> QED
    BY <2>1, <2>2 DEF Handle
<1>14. CASE ContainerEnds(u)
  <2>1. Handle(u)'
    BY <1>14
      DEF ContainerEnds, StateSame, Goto, launchVars, LaunchData, PcType,
          Handle, Resolving, Launching
  <2>2. \A w \in User \ {u} : /\ pc'[w] = pc[w] /\ scratch'[w] = scratch[w]
                            /\ projection'[w] = projection[w]
    BY <1>14
      DEF ContainerEnds, StateSame, Goto, launchVars, LaunchData, PcType
  <2> QED
    BY <2>1, <2>2 DEF Handle
<1> QED
  BY <1>1, <1>2, <1>3, <1>4, <1>5, <1>6, <1>7, <1>8, <1>9, <1>10, <1>11,
     <1>12, <1>13, <1>14 DEF LauncherStep

LEMMA LauncherInstall ==
  ASSUME PcType, InstallerData, DryType, HomeData, InstallInv, NEW u \in User,
         LauncherStep(u) \/ ContainerEnds(u)
  PROVE  InstallerData' /\ DryType' /\ HomeData' /\ InstallInv' /\ upset' = upset
<1>1. CASE RejectRequest(u)
  <2>1. \A c \in Container : pc'[c] \in BeforeDocker => pc[c] \in BeforeDocker
    BY LauncherMoves, LaunchAssumption DEF Goto, PcType
  <2>2. UNCHANGED installVars
    BY <1>1 DEF RejectRequest
  <2> QED
    BY <2>1, <2>2, InstallStill DEF installVars, installerVars, homeVars, HomeData
<1>2. CASE PrintPlan(u)
  <2>1. \A c \in Container : pc'[c] \in BeforeDocker => pc[c] \in BeforeDocker
    BY LauncherMoves, LaunchAssumption DEF Goto, PcType
  <2>2. UNCHANGED installVars
    BY <1>2 DEF PrintPlan
  <2> QED
    BY <2>1, <2>2, InstallStill DEF installVars, installerVars, homeVars, HomeData
<1>3. CASE Materialize(u)
  <2>1. \A c \in Container : pc'[c] \in BeforeDocker => pc[c] \in BeforeDocker
    BY LauncherMoves, LaunchAssumption DEF Goto, PcType
  <2>2. /\ UNCHANGED <<stage, wanted, dry, index, held, writing, unpacked, results>>
        /\ home' = home /\ alien' = alien /\ upset' = upset
        /\ damaged' \subseteq Version
    BY <1>3 DEF Materialize, installerVars, HomeData
  <2> QED
    BY <2>1, <2>2, InstallStill
<1>4. CASE CreateScratch(u)
  <2>1. \A c \in Container : pc'[c] \in BeforeDocker => pc[c] \in BeforeDocker
    BY LauncherMoves, LaunchAssumption DEF Goto, PcType
  <2>2. UNCHANGED installVars
    BY <1>4 DEF CreateScratch
  <2> QED
    BY <2>1, <2>2, InstallStill DEF installVars, installerVars, homeVars, HomeData
<1>5. CASE WriteScratch(u)
  <2>1. \A c \in Container : pc'[c] \in BeforeDocker => pc[c] \in BeforeDocker
    BY LauncherMoves, LaunchAssumption DEF Goto, PcType
  <2>2. UNCHANGED installVars
    BY <1>5 DEF WriteScratch
  <2> QED
    BY <2>1, <2>2, InstallStill DEF installVars, installerVars, homeVars, HomeData
<1>6. CASE LinkProjection(u)
  <2>1. \A c \in Container : pc'[c] \in BeforeDocker => pc[c] \in BeforeDocker
    BY LauncherMoves, LaunchAssumption DEF Goto, PcType
  <2>2. UNCHANGED installVars
    BY <1>6 DEF LinkProjection
  <2> QED
    BY <2>1, <2>2, InstallStill DEF installVars, installerVars, homeVars, HomeData
<1>7. CASE UnlinkScratch(u)
  <2>1. \A c \in Container : pc'[c] \in BeforeDocker => pc[c] \in BeforeDocker
    BY LauncherMoves, LaunchAssumption DEF Goto, PcType
  <2>2. UNCHANGED installVars
    BY <1>7 DEF UnlinkScratch
  <2> QED
    BY <2>1, <2>2, InstallStill DEF installVars, installerVars, homeVars, HomeData
<1>8. CASE AllocateName(u)
  <2>1. \A c \in Container : pc'[c] \in BeforeDocker => pc[c] \in BeforeDocker
    BY LauncherMoves, LaunchAssumption DEF Goto, PcType
  <2>2. UNCHANGED installVars
    BY <1>8 DEF AllocateName
  <2> QED
    BY <2>1, <2>2, InstallStill DEF installVars, installerVars, homeVars, HomeData
<1>9. CASE DockerRun(u)
  <2>1. \A c \in Container : pc'[c] \in BeforeDocker => pc[c] \in BeforeDocker
    BY LauncherMoves, LaunchAssumption DEF Goto, PcType
  <2>2. CASE name[u] \in Taken
    <3>1. UNCHANGED installVars
      BY <1>9, <2>2 DEF DockerRun
    <3> QED
      BY <2>1, <3>1, InstallStill DEF installVars, installerVars, homeVars, HomeData
  <2>3. CASE name[u] \notin Taken
    <3>1. /\ pc[u] = "run" /\ Begin(u) /\ pc' = [pc EXCEPT ![u] = "attached"]
          /\ home' = home /\ alien' = alien /\ damaged' = damaged /\ upset' = upset
      BY <1>9, <2>3 DEF DockerRun, Goto, homeVars
    <3>2. /\ pc'[u] = "attached" /\ \A w \in User \ {u} : pc'[w] = pc[w]
      BY <3>1 DEF PcType
    <3> QED
      BY <3>1, <3>2, LaunchAssumption, InstallBegins
  <2> QED
    BY <2>2, <2>3
<1>10. CASE Cleanup(u)
  <2>1. \A c \in Container : pc'[c] \in BeforeDocker => pc[c] \in BeforeDocker
    BY LauncherMoves, LaunchAssumption DEF Goto, PcType
  <2>2. UNCHANGED installVars
    BY <1>10 DEF Cleanup
  <2> QED
    BY <2>1, <2>2, InstallStill DEF installVars, installerVars, homeVars, HomeData
<1>11. CASE StepFails(u)
  <2>1. \A c \in Container : pc'[c] \in BeforeDocker => pc[c] \in BeforeDocker
    BY LauncherMoves, LaunchAssumption DEF Goto, PcType
  <2>2. UNCHANGED installVars
    BY <1>11 DEF StepFails
  <2> QED
    BY <2>1, <2>2, InstallStill DEF installVars, installerVars, homeVars, HomeData
<1>12. CASE Interrupt(u)
  <2>1. \A c \in Container : pc'[c] \in BeforeDocker => pc[c] \in BeforeDocker
    BY LauncherMoves, LaunchAssumption DEF Goto, PcType
  <2>2. UNCHANGED installVars
    BY <1>12 DEF Interrupt
  <2> QED
    BY <2>1, <2>2, InstallStill DEF installVars, installerVars, homeVars, HomeData
<1>13. CASE KillLauncher(u)
  <2>1. \A c \in Container : pc'[c] \in BeforeDocker => pc[c] \in BeforeDocker
    BY LauncherMoves, LaunchAssumption DEF Goto, PcType
  <2>2. UNCHANGED installVars
    BY <1>13 DEF KillLauncher
  <2> QED
    BY <2>1, <2>2, InstallStill DEF installVars, installerVars, homeVars, HomeData
<1>14. CASE ContainerEnds(u)
  <2>1. \A c \in Container : pc'[c] \in BeforeDocker => pc[c] \in BeforeDocker
    BY LauncherMoves, LaunchAssumption DEF Goto, PcType
  <2>2. UNCHANGED installVars
    BY <1>14 DEF ContainerEnds
  <2> QED
    BY <2>1, <2>2, InstallStill DEF installVars, installerVars, homeVars, HomeData
<1> QED
  BY <1>1, <1>2, <1>3, <1>4, <1>5, <1>6, <1>7, <1>8, <1>9, <1>10, <1>11,
     <1>12, <1>13, <1>14 DEF LauncherStep

LEMMA LauncherFaults ==
  ASSUME StateData, NEW u \in User, LauncherStep(u) \/ ContainerEnds(u)
  PROVE  faults' \in 0..MaxFaults
<1>1. CASE RejectRequest(u)
  BY <1>1, Bounds DEF RejectRequest, StateSame, StateData
<1>2. CASE PrintPlan(u)
  BY <1>2, Bounds DEF PrintPlan, StateSame, StateData
<1>3. CASE Materialize(u)
  BY <1>3, Bounds DEF Materialize, StateSame, StateData
<1>4. CASE CreateScratch(u)
  BY <1>4, Bounds DEF CreateScratch, StateSame, StateData
<1>5. CASE WriteScratch(u)
  BY <1>5, Bounds DEF WriteScratch, StateSame, StateData
<1>6. CASE LinkProjection(u)
  BY <1>6, Bounds DEF LinkProjection, StateSame, StateData
<1>7. CASE UnlinkScratch(u)
  BY <1>7, Bounds DEF UnlinkScratch, StateSame, StateData
<1>8. CASE AllocateName(u)
  BY <1>8, Bounds DEF AllocateName, StateSame, StateData
<1>9. CASE DockerRun(u)
  BY <1>9, Bounds DEF DockerRun, StateSame, StateData
<1>10. CASE Cleanup(u)
  BY <1>10, Bounds DEF Cleanup, StateSame, StateData
<1>11. CASE StepFails(u)
  BY <1>11, Bounds DEF StepFails, Fault, StateData
<1>12. CASE Interrupt(u)
  BY <1>12, Bounds DEF Interrupt, Fault, StateData
<1>13. CASE KillLauncher(u)
  BY <1>13, Bounds DEF KillLauncher, Fault, StateData
<1>14. CASE ContainerEnds(u)
  BY <1>14, Bounds DEF ContainerEnds, StateSame, StateData
<1> QED
  BY <1>1, <1>2, <1>3, <1>4, <1>5, <1>6, <1>7, <1>8, <1>9, <1>10, <1>11,
     <1>12, <1>13, <1>14 DEF LauncherStep

LEMMA ResolvedStage ==
  ASSUME NEW u \in User, PcType, Resolve(u)
  PROVE  pc'[u] \notin {"fill", "promote", "tidy", "name", "run", "attached"}
<1> USE DEF userVars, diskVars, stateVars, Goto
<1>1. CASE Start(u)
  BY <1>1 DEF Start, GotoAt, PcType
<1>2. CASE Inspect(u)
  BY <1>2 DEF Inspect, Fail, GotoAt, PcType
<1>3. CASE LeadUp(u)
  BY <1>3 DEF LeadUp, PcType
<1>4. CASE MakeLeadUp(u)
  BY <1>4 DEF MakeLeadUp, MakeDir, Fail, PcType
<1>5. CASE Secure(u)
  BY <1>5 DEF Secure, MakeDir, Fail, NextOfTree, GotoAt, PcType
<1>6. CASE Make(u)
  BY <1>6 DEF Make, MakeDir, Fail, NextOfTree, GotoAt, PcType
<1>7. CASE OpenRoot(u)
  BY <1>7 DEF OpenRoot, Open, Fail, GotoAt, PcType
<1>8. CASE OpenProjects(u)
  BY <1>8 DEF OpenProjects, Open, Fail, GotoAt, PcType
<1>9. CASE MakeProjects(u)
  BY <1>9 DEF MakeProjects, MakeDir, Fail, PcType
<1>10. CASE OpenNamespace(u)
  BY <1>10 DEF OpenNamespace, Open, Fail, GotoAt, PcType
<1>11. CASE MakeNamespace(u)
  BY <1>11 DEF MakeNamespace, MakeDir, Fail, PcType
<1>12. CASE WriteTemporary(u)
  BY <1>12 DEF WriteTemporary, PcType
<1>13. CASE LinkMetadata(u)
  BY <1>13 DEF LinkMetadata, PcType
<1>14. CASE UnlinkTemporary(u)
  BY <1>14 DEF UnlinkTemporary, PcType
<1>15. CASE ReadMetadata(u)
  BY <1>15 DEF ReadMetadata, Fail, GotoAt, PcType
<1>16. CASE LookAtChild(u)
  BY <1>16, LookOutcomes DEF Fail, GotoAt, PcType, LookAtChild
<1>17. CASE MakeChild(u)
  BY <1>17, MakeChildOutcomes DEF Fail, GotoAt, PcType, MakeChild
<1>18. CASE CallFails(u)
  BY <1>18 DEF CallFails, Fail, Disturbed, PcType
<1>19. CASE KilledResolving(u)
  BY <1>19 DEF KilledResolving, Disturbed, PcType
<1> QED
  BY <1>1, <1>2, <1>3, <1>4, <1>5, <1>6, <1>7, <1>8, <1>9, <1>10, <1>11,
     <1>12, <1>13, <1>14, <1>15, <1>16, <1>17, <1>18, <1>19 DEF Resolve

-----------------------------------------------------------------------------
(* The invariant.                                                          *)
LEMMA InitInv == Init => Inv
<1> SUFFICES ASSUME Init PROVE Inv
  OBVIOUS
<1> USE DEF Init
<1>1. StateData
  <2>1. PICK disk \in Disks : dir = disk.dir /\ metadata = disk.metadata
    BY DEF StateInit
  <2>2. dir \in [Dir -> Entry] /\ metadata \in Identity
    BY <2>1, DiskAssumption
  <2> QED
    BY <2>2, Bounds DEF StateInit, StateData
<1>2. PcType
  BY DEF StateInit, PcType
<1>3. CreateType
  BY Zenon DEF StateInit, CreateType
<1>4. InstallerData
  BY PackageFacts, EmptySeq DEF InstallInit, InstallerData
<1>5. DryType
  BY Zenon DEF InstallInit, DryType
<1>6. HomeData
  BY DEF InstallInit, HomeData, Content
<1>7. upset \in 0..InstallFaults
  BY InstallerAssumption DEF InstallInit
<1>8. LaunchData
  BY LaunchAssumption, FS_CardinalityType DEF LaunchInit, LaunchData
<1>9. LaunchFlags
  BY Zenon DEF LaunchInit, LaunchFlags
<1>10. StateInv
  <2>1. \A u \in User : Walking(u)
    <3> SUFFICES ASSUME NEW u \in User PROVE Walking(u)
      OBVIOUS
    <3>1. pc[u] = "idle" /\ cause[u] = "none" /\ attempt[u] = 0
      BY DEF StateInit
    <3>2. create[u]
      BY DEF StateInit
    <3>3. 0 < Attempts
      BY Bounds
    <3> QED
      BY <3>1, <3>2, <3>3 DEF Walking, Hardening
  <2>2. \A u \in User : Seen(u) /\ Secured(u)
    BY DEF StateInit, Seen, Secured, Hardening, Hardened, Below, Inside, Identified
  <2>3. LateSettled
    BY DEF StateInit, LateSettled
  <2> QED
    BY <2>1, <2>2, <2>3 DEF StateInv
<1>11. \A u \in User : Handle(u)
  BY DEF StateInit, LaunchInit, Handle
<1>12. \A c \in Container : Shape(c)
  <2> SUFFICES ASSUME NEW c \in Container PROVE Shape(c)
    OBVIOUS
  <2>1. /\ stage[c] = "off" /\ index[c] = 1 /\ unpacked[c] = {} /\ writing[c] = NoFile
        /\ results[c] = <<>>
    BY DEF InstallInit
  <2>2. ~dry[c]
    BY DEF InstallInit
  <2>3. Len(results[c]) = index[c] - 1
    BY <2>1
  <2> QED
    BY <2>1, <2>2, <2>3 DEF Shape
<1>13. \E v0 \in Version \cup {NoVersion} : \A v \in Version : Agreed(v) => Orderly(v0, v)
  <2>1. PICK v0 \in Version \cup {NoVersion} :
            home = [p \in Package |-> [f \in File |-> v0]]
    BY DEF InstallInit
  <2>2. \A p \in Package, f \in File : home[p][f] = v0
    BY <2>1
  <2>3. v0 # "torn" /\ "package.json" \in File
    BY InstallerAssumption
  <2>4. ASSUME NEW v \in Version
        PROVE  Orderly(v0, v)
    <3>1. \A p \in alien : home[p]["package.json"] = v0
      BY <2>2, <2>3, <1>6 DEF HomeData
    <3>2. \A p \in Package :
             Touched(v0, v, p, "package.json") => \A f \in File : Touched(v0, v, p, f)
      BY <2>2, <2>3 DEF Touched
    <3>3. \A c \in Container : stage[c] # "unpack" /\ 1..index[c] - 1 = {}
      BY DEF InstallInit
    <3> QED
      BY <2>2, <2>3, <3>1, <3>2, <3>3 DEF Orderly
  <2> QED
    BY <2>4
<1> QED
  BY <1>1, <1>2, <1>3, <1>4, <1>5, <1>6, <1>7, <1>8, <1>9, <1>10, <1>11, <1>12, <1>13,
     TypeParts DEF Inv, InstallInv

LEMMA HandleResolve ==
  ASSUME NEW u \in User, PcType, Resolve(u), \A w \in User : Handle(w),
         StateData, CreateType, Walking(u), UNCHANGED launchVars
  PROVE  /\ \A w \in User : Handle(w)'
         /\ \A w \in User : pc'[w] \in BeforeDocker => pc[w] \in BeforeDocker
<1>1. pc[u] \in {"idle"} \cup Resolving
  BY DEF Resolve, Start, Inspect, LeadUp, MakeLeadUp, Secure, Make, OpenRoot,
      OpenProjects, MakeProjects, OpenNamespace, MakeNamespace, WriteTemporary,
      LinkMetadata, UnlinkTemporary, ReadMetadata, LookAtChild, MakeChild,
      CallFails, KilledResolving, Disturbed, Resolving
<1>2. projection[u] = "none" /\ scratch[u] = "none"
  BY <1>1 DEF Handle
<1>3. pc'[u] \notin {"tidy", "promote", "name", "run", "attached"}
  BY ResolvedStage
<1>4. Handle(u)'
  BY <1>2, <1>3 DEF Handle, launchVars
<1>5. \A w \in User \ {u} : pc'[w] = pc[w]
  BY FrameResolve
<1>6. \A w \in User \ {u} : Handle(w)'
  BY <1>5 DEF Handle, launchVars
<1> QED
  BY <1>1, <1>4, <1>5, <1>6 DEF BeforeDocker

LEMMA NextInv == Inv /\ [Next]_vars => Inv'
<1> SUFFICES ASSUME Inv, [Next]_vars PROVE Inv'
  OBVIOUS
<1>1. /\ StateData /\ CreateType /\ PcType
      /\ InstallerData /\ DryType /\ HomeData /\ upset \in 0..InstallFaults
      /\ LaunchData /\ LaunchFlags
  BY TypeParts DEF Inv
<1>2. StateInv /\ (\A u \in User : Handle(u)) /\ InstallInv
  BY DEF Inv
<1> DEFINE Goal == /\ StateData' /\ CreateType' /\ PcType'
                   /\ InstallerData' /\ DryType' /\ HomeData' /\ upset' \in 0..InstallFaults
                   /\ LaunchData' /\ LaunchFlags'
                   /\ StateInv' /\ (\A u \in User : Handle(u)') /\ InstallInv'
<1>3. SUFFICES Goal
  BY TypeNext DEF Inv
<1>4. ASSUME NEW u \in User, Resolve(u), UNCHANGED <<installVars, launchVars>>
      PROVE  Goal
  <2>1. StateInv' /\ StateData' /\ PcType' /\ CreateType'
    BY <1>1, <1>2, <1>4, StateResolve
  <2>2. /\ \A w \in User : Handle(w)'
        /\ \A w \in User : pc'[w] \in BeforeDocker => pc[w] \in BeforeDocker
    BY <1>1, <1>2, <1>4, HandleResolve DEF StateInv
  <2>3. LaunchData' /\ LaunchFlags'
    BY <1>1, <1>4 DEF LaunchData, LaunchFlags, launchVars
  <2>4. InstallerData' /\ DryType' /\ HomeData' /\ InstallInv' /\ upset' = upset
    BY <1>1, <1>2, <1>4, <2>2, LaunchAssumption, InstallStill
       DEF installVars, installerVars, homeVars, HomeData
  <2> QED
    BY <1>1, <2>1, <2>2, <2>3, <2>4
<1>5. ASSUME NEW u \in User, LauncherStep(u) \/ ContainerEnds(u)
      PROVE  Goal
  <2>1. InstallerData' /\ DryType' /\ HomeData' /\ InstallInv' /\ upset' = upset
    BY <1>1, <1>2, <1>5, LauncherInstall
  <2>2. LaunchData' /\ LaunchFlags'
    BY <1>1, <1>5, LauncherTypes
  <2>3. \A w \in User : Handle(w)'
    BY <1>1, <1>2, <1>5, LauncherHandles
  <2>4. /\ UNCHANGED <<at, create, attempt, cause, late, dir, metadata, temporary>>
        /\ \/ pc' = pc
           \/ \E s \in (Launching \cup Ended) \ {"resolved"} : Goto(u, s)
    BY <1>1, <1>5, LauncherMoves
  <2>5. StateInv' /\ PcType'
    BY <1>1, <1>2, <2>4, StateElsewhere, StateStill DEF PcType
  <2>6. faults' \in 0..MaxFaults
    BY <1>1, <1>5, LauncherFaults
  <2>7. StateData' /\ CreateType'
    BY <1>1, <2>4, <2>6 DEF StateData, CreateType
  <2> QED
    BY <1>1, <2>1, <2>2, <2>3, <2>5, <2>7
<1>6. ASSUME NEW u \in User, ContainerStep(u)
      PROVE  Goal
  <2>1. Act(u) /\ UNCHANGED <<stateVars, launchVars>>
    BY <1>6 DEF ContainerStep, Act
  <2>2. pc' = pc /\ UNCHANGED <<at, create, attempt, cause, late, dir, metadata, temporary, faults>>
    BY <2>1 DEF stateVars, userVars, diskVars
  <2>3. /\ InstallerData' /\ DryType' /\ HomeData' /\ upset' \in 0..InstallFaults
        /\ InstallInv'
    BY <1>1, <1>2, <2>1, <2>2, LaunchAssumption, InstallAct
  <2>4. StateInv'
    BY <1>2, <2>2, StateStill
  <2>5. StateData' /\ CreateType' /\ PcType'
    BY <1>1, <2>2 DEF StateData, CreateType, PcType
  <2>6. LaunchData' /\ LaunchFlags' /\ \A w \in User : Handle(w)'
    BY <1>1, <1>2, <2>1, <2>2 DEF LaunchData, LaunchFlags, launchVars, Handle
  <2> QED
    BY <2>3, <2>4, <2>5, <2>6
<1>7. ASSUME Environment \/ UNCHANGED vars
      PROVE  Goal
  <2>1. /\ UNCHANGED <<stateVars, launchVars>>
        /\ UNCHANGED <<stage, wanted, dry, index, held, writing, unpacked, results, home, alien>>
        /\ damaged' \subseteq Version
        /\ upset' = upset \/ (upset < InstallFaults /\ upset' = upset + 1)
    BY <1>1, <1>7 DEF Environment, DamageArtifact, Upset, vars, installVars,
        installerVars, homeVars, HomeData
  <2>2. pc' = pc /\ UNCHANGED <<at, create, attempt, cause, late, dir, metadata, temporary, faults>>
    BY <2>1 DEF stateVars, userVars, diskVars
  <2>3. upset' \in 0..InstallFaults /\ (upset' = upset \/ upset' # 0)
    BY <1>1, <2>1, InstallerAssumption
  <2>4. InstallerData' /\ DryType' /\ HomeData' /\ InstallInv'
    BY <1>1, <1>2, <2>1, <2>2, <2>3, InstallStill
  <2>5. StateInv'
    BY <1>2, <2>2, StateStill
  <2>6. StateData' /\ CreateType' /\ PcType'
    BY <1>1, <2>2 DEF StateData, CreateType, PcType
  <2>7. LaunchData' /\ LaunchFlags' /\ \A w \in User : Handle(w)'
    BY <1>1, <1>2, <2>1, <2>2 DEF LaunchData, LaunchFlags, launchVars, Handle
  <2> QED
    BY <2>3, <2>4, <2>5, <2>6, <2>7
<1> QED
  BY <1>4, <1>5, <1>6, <1>7 DEF Next

THEOREM Invariance == Spec => []Inv
BY InitInv, NextInv, PTL DEF Spec

-----------------------------------------------------------------------------
(* Every variable keeps its type: what each command, launcher and container *)
(* of the launch may hold.                                                 *)
THEOREM TypeCorrect == Spec => []TypeOK
BY Invariance, PTL DEF Inv

(* A command that resolved its project for real has every directory of the *)
(* cache root and of the namespace for itself, and the whole identity,     *)
(* however many commands harden, create and publish at once, fail or are   *)
(* killed (prepare_resolved_root, resolve_project_state).                  *)
THEOREM ResolvedPrivate == Spec => []ResolvedIsPrivate
<1>1. Inv => ResolvedIsPrivate
  <2> SUFFICES ASSUME Inv, NEW u \in User, pc[u] = "resolved", create[u]
               PROVE  Established
    BY DEF ResolvedIsPrivate
  <2>1. /\ Reachable /\ \A i \in 1..Len(Tree) : Own(Tree[i])
        /\ Own("projects") /\ Own("namespace") /\ metadata = "whole"
        /\ \A i \in 1..Len(Children) : Own(Children[i])
    BY DEF Inv, StateInv, Secured, Hardened, Below, Inside, Identified
  <2>2. \A d \in Dir \ {"lead-up"} : Own(d)
    BY <2>1, DirCases
  <2> QED
    BY <2>1, <2>2 DEF Established, Own, Reachable
<1> QED
  BY <1>1, Invariance, PTL

(* Once everything stood, no command is turned away but by a failed call   *)
(* of its own: the races of first users are over.                          *)
THEOREM LateResolved == Spec => []LateUsersResolve
<1>1. Inv => LateUsersResolve
  BY DEF Inv, StateInv, LateSettled, LateUsersResolve
<1> QED
  BY <1>1, Invariance, PTL

(* While one entry of the tree, or of the namespace, is unsafe, nothing of *)
(* that group is created or repaired: _harden_tree looks at all of it      *)
(* before it changes any of it.                                            *)
THEOREM UnsafeUntouched == Spec => UnsafeLeavesGroup
<1>1. Inv /\ [Next]_vars =>
        [\A group \in {Elements(Tree), Elements(Children)} :
           (\E d \in group : dir[d] = "unsafe") => \A d \in group : dir'[d] = dir[d]]_dir
  <2> SUFFICES ASSUME Inv, [Next]_vars, dir' # dir,
                      NEW group \in {Elements(Tree), Elements(Children)},
                      NEW e \in group, dir[e] = "unsafe", NEW d \in group
               PROVE  dir'[d] = dir[d]
    OBVIOUS
  <2>1. PICK u \in User : Resolve(u)
    BY LauncherMoves, TypeParts DEF Inv, Next, ContainerStep, Environment, vars,
       stateVars, diskVars
  <2>2. \/ \E x \in {"lead-up", "projects", "namespace"} : MakeDir(x)
        \/ /\ \A i \in 1..Len(Tree) : Safe(Tree[i])
           /\ \E i \in 1..Len(Tree) : MakeDir(Tree[i])
        \/ /\ \A i \in 1..Len(Children) : Safe(Children[i])
           /\ \E i \in 1..Len(Children) : MakeDir(Children[i])
    BY <2>1, MadeWhenSafe DEF Inv, StateInv
  <2>3. dir \in [Dir -> Entry]
    BY TypeParts DEF Inv, StateData
  <2>4. CASE group = Elements(Tree)
    <3>1. PICK i \in 1..Len(Tree), j \in 1..Len(Tree) : e = Tree[i] /\ d = Tree[j]
      BY <2>4, TreeFacts
    <3>2. ~Safe(Tree[i])
      BY <3>1 DEF Safe
    <3>3. d \in Dir /\ d \notin {"lead-up", "projects", "namespace"}
      BY <3>1, TreeDirs
    <3>4. \A k \in 1..Len(Children) : Children[k] # d
      BY <3>1, ChildDirs
    <3>5. \E x : x # d /\ MakeDir(x)
      BY <2>2, <3>2, <3>3, <3>4
    <3> QED
      BY <2>3, <3>3, <3>5 DEF MakeDir
  <2>5. CASE group = Elements(Children)
    <3>1. PICK i \in 1..Len(Children), j \in 1..Len(Children) :
             e = Children[i] /\ d = Children[j]
      BY <2>5, TreeFacts
    <3>2. ~Safe(Children[i])
      BY <3>1 DEF Safe
    <3>3. /\ d \in Dir /\ d \notin {"lead-up", "projects", "namespace"}
          /\ \A k \in 1..Len(Tree) : Tree[k] # d
      BY <3>1, ChildDirs
    <3>4. \E x : x # d /\ MakeDir(x)
      BY <2>2, <3>2, <3>3
    <3> QED
      BY <2>3, <3>3, <3>4 DEF MakeDir
  <2> QED
    BY <2>4, <2>5
<1> QED
  BY <1>1, Invariance, PTL DEF Spec, UnsafeLeavesGroup

(* When nothing went wrong, nobody is extracting and the containers agree  *)
(* on the versions, one whose command started finds every file of every    *)
(* package of its projection, however many of them have extracted into the *)
(* shared Pi home at once without a lock (install_extensions).             *)
THEOREM Installed == Spec => []InstalledWhenQuiet
<1>1. Inv => InstalledWhenQuiet
  <2> SUFFICES ASSUME Inv, upset = 0,
                      \A c \in Container : stage[c] # "off" => stage[c] # "unpack",
                      \A c, d \in Container :
                         stage[c] # "off" /\ stage[d] # "off" => wanted[c] = wanted[d],
                      NEW c \in Container, stage[c] = "started",
                      NEW p \in Package, NEW f \in File
               PROVE  home[p][f] = wanted[c]
    BY DEF InstalledWhenQuiet
  <2>1. InstallerData /\ InstallInv
    BY TypeParts DEF Inv
  <2>2. PICK v0 \in Version \cup {NoVersion} :
            \A v \in Version : Agreed(v) => Orderly(v0, v)
    BY <2>1 DEF InstallInv
  <2>3. wanted[c] \in Version /\ Agreed(wanted[c])
    BY <2>1 DEF InstallerData, Agreed
  <2>4. Orderly(v0, wanted[c])
    BY <2>2, <2>3
  <2>5. ~dry[c] /\ ~More(c)
    BY <2>1 DEF InstallInv, Shape
  <2>6. index[c] = Len(Packages) + 1
    BY <2>1, <2>5, IndexFacts
  <2>7. PICK i \in 1..Len(Packages) : p = Packages[i]
    BY PackageFacts
  <2>8. i \in 1..index[c] - 1
    BY <2>6, PackageFacts
  <2>9. Touched(v0, wanted[c], p, "package.json")
    BY <2>4, <2>5, <2>7, <2>8 DEF Orderly
  <2>10. \A d \in Container : ~Unpacking(d, p)
    BY DEF Unpacking
  <2>11. Touched(v0, wanted[c], p, f) /\ home[p][f] # "torn"
    BY <2>4, <2>9, <2>10 DEF Orderly
  <2>12. home[p][f] \in {v0, wanted[c], "torn"}
    BY <2>4 DEF Orderly
  <2> QED
    BY <2>11, <2>12 DEF Touched
<1> QED
  BY <1>1, Invariance, PTL

(* A launch that ended by itself left neither its private projection nor   *)
(* its temporary, and while its launcher waits for the container the       *)
(* projection is there (RuntimeProjectionHandle, orchestrate_run).         *)
THEOREM ProjectionsRemoved == Spec => []ProjectionRemoved
<1>1. Inv => ProjectionRemoved
  BY DEF Inv, Handle, ProjectionRemoved
<1> QED
  BY <1>1, Invariance, PTL
=============================================================================
