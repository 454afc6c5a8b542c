---------------------------- MODULE ProjectState ----------------------------
(***************************************************************************)
(* The private directories every command of the constructor starts from:   *)
(*   docker/versioning/cache_storage.py   prepare_resolved_root            *)
(*   docker/versioning/project_state.py   resolve_project_state            *)
(* A user is one command of the invoking user.  It first hardens the cache *)
(* root and its descendants, then opens the project's namespace, whose     *)
(* identity metadata the user that creates the namespace publishes and     *)
(* everyone reads.  A dry run looks, creates nothing and is content with   *)
(* what is missing.  No lock is taken: a step is one call on a directory   *)
(* or file, and the steps of concurrent users interleave.                  *)
(***************************************************************************)
EXTENDS Naturals, Sequences

CONSTANTS
    User,         \* commands
    Descendants,  \* the children of the cache root, in the order secured
    Children,     \* the children of the namespace, in the order inspected
    Disks,        \* what a user may find: records of directories and metadata
    Attempts,     \* reads of project.json before a user gives up
    MaxFaults     \* bound on crashes and failed calls

ASSUME StateAssumption ==
    /\ Descendants \in Seq(STRING)
    /\ Children \in Seq(STRING) \ {<<>>}
    /\ Attempts \in Nat \ {0}
    /\ MaxFaults \in Nat

VARIABLES
    pc,         \* where each user is
    at,         \* per user: the position in the list it walks
    create,     \* per user: FALSE for a dry run
    attempt,    \* per user: failed reads of project.json
    dir,        \* what stands at each path
    metadata,   \* what stands at project.json
    temporary,  \* per user: its unpublished copy of the metadata
    cause,      \* per user: why it failed
    late,       \* history: users that started after everything was in place
    faults      \* faults so far

userVars == <<pc, at, create, attempt, cause, late>>
diskVars == <<dir, metadata, temporary>>
stateVars == <<userVars, diskVars, faults>>

(* "lead-up" stands for the components above the cache root, which are     *)
(* created when missing and otherwise left as they are.                    *)
Tree == <<"root">> \o Descendants
Elements(list) == {list[i] : i \in DOMAIN list}
Dir == {"lead-up", "projects", "namespace"} \cup Elements(Tree) \cup Elements(Children)

(* An entry is missing, unsafe (a link, a file or someone else's), open to *)
(* others, or the user's own with mode 0700.                               *)
Entry == {"absent", "unsafe", "loose", "private"}
Identity == {"absent", "whole", "foreign"}

(* The names denote different directories.                                 *)
ASSUME DiskAssumption ==
    /\ Elements(Tree) \cap {"lead-up", "projects", "namespace"} = {}
    /\ Elements(Children) \cap ({"lead-up", "projects", "namespace"} \cup Elements(Tree)) = {}
    /\ Disks # {} /\ Disks \subseteq [dir : [Dir -> Entry], metadata : Identity]

Resolving ==
    {"inspect", "lead-up", "make-lead-up", "secure", "make", "root", "projects", "make-projects",
     "namespace", "make-namespace", "write", "link", "unlink", "read",
     "look", "make-child"}

(* Every variable has its type. *)
StateTypeOK ==
    /\ at \in [User -> Nat]
    /\ create \in [User -> BOOLEAN]
    /\ attempt \in [User -> 0..Attempts]
    /\ dir \in [Dir -> Entry]
    /\ metadata \in Identity
    /\ temporary \in [User -> {"none", "empty", "whole"}]
    /\ cause \in [User -> {"none", "unsafe", "race", "metadata", "error"}]
    /\ late \subseteq User
    /\ faults \in 0..MaxFaults

-----------------------------------------------------------------------------
StateInit ==
    /\ \E disk \in Disks : dir = disk.dir /\ metadata = disk.metadata
    /\ pc = [u \in User |-> "idle"]
    /\ at = [u \in User |-> 0]
    /\ create = [u \in User |-> TRUE]
    /\ attempt = [u \in User |-> 0]
    /\ temporary = [u \in User |-> "none"]
    /\ cause = [u \in User |-> "none"]
    /\ late = {}
    /\ faults = 0

Established ==
    /\ metadata = "whole" /\ dir["lead-up"] \notin {"absent", "unsafe"}
    /\ \A d \in Dir \ {"lead-up"} : dir[d] = "private"

Goto(u, stage) == pc' = [pc EXCEPT ![u] = stage]
GotoAt(u, stage, n) == Goto(u, stage) /\ at' = [at EXCEPT ![u] = n]
Fail(u, why) == Goto(u, "failed") /\ cause' = [cause EXCEPT ![u] = why]
MakeDir(d) == dir' = [dir EXCEPT ![d] = "private"]

(* A command begins: a real one hardens the tree first, a dry run opens    *)
(* the root as it is.                                                      *)
Start(u) ==
    /\ pc[u] = "idle"
    /\ late' = IF Established THEN late \cup {u} ELSE late
    /\ \/ GotoAt(u, "inspect", 1) /\ UNCHANGED create
       \/ GotoAt(u, "root", 0) /\ create' = [create EXCEPT ![u] = FALSE]
    /\ UNCHANGED <<attempt, cause, diskVars, faults>>

(* Mutant: only the root is inspected before the tree is changed.          *)
InspectRootOnly(u) ==
    /\ pc[u] = "inspect"
    /\ IF dir["root"] = "unsafe" THEN Fail(u, "unsafe") /\ UNCHANGED at
         ELSE GotoAt(u, "lead-up", 1) /\ UNCHANGED cause
    /\ UNCHANGED <<create, attempt, late, diskVars, faults>>

(* _harden_tree's first pass: nothing is touched until every entry of the  *)
(* tree that exists was found safe.                                        *)
Inspect(u) ==
    /\ pc[u] = "inspect"
    /\ IF "unsafe" \in {dir["lead-up"], dir[Tree[at[u]]]}
         THEN Fail(u, "unsafe") /\ UNCHANGED at
         ELSE /\ IF at[u] < Len(Tree) THEN GotoAt(u, "inspect", at[u] + 1)
                                      ELSE GotoAt(u, "lead-up", 1)
              /\ UNCHANGED cause
    /\ UNCHANGED <<create, attempt, late, diskVars, faults>>

(* _open_parent_fd makes the missing components above the root.  The check *)
(* and the mkdir are two calls, and a component that appeared in between   *)
(* is an error.                                                            *)
LeadUp(u) ==
    /\ pc[u] = "lead-up"
    /\ IF dir["lead-up"] = "absent" THEN Goto(u, "make-lead-up") ELSE Goto(u, "secure")
    /\ UNCHANGED <<at, create, attempt, cause, late, diskVars, faults>>

MakeLeadUp(u) ==
    /\ pc[u] = "make-lead-up"
    /\ IF dir["lead-up"] = "absent"
         THEN Goto(u, "secure") /\ MakeDir("lead-up") /\ UNCHANGED cause
         ELSE Fail(u, "race") /\ UNCHANGED dir
    /\ UNCHANGED <<at, create, attempt, late, metadata, temporary, faults>>

(* _create_and_secure, the second pass: an existing entry is clamped to    *)
(* 0700, a missing one is made by a second call, which fails when another  *)
(* user made the entry first.                                              *)
NextOfTree(u) ==
    IF at[u] < Len(Tree) THEN GotoAt(u, "secure", at[u] + 1) ELSE GotoAt(u, "root", 0)

(* Mutant: existing entries are given a mode that lets others in.          *)
SecureLoosely(u) ==
    /\ pc[u] = "secure"
    /\ LET d == Tree[at[u]]
       IN  CASE dir[d] = "absent" -> Goto(u, "make") /\ UNCHANGED <<at, dir, cause>>
             [] dir[d] = "unsafe" -> Fail(u, "unsafe") /\ UNCHANGED <<at, dir>>
             [] OTHER -> NextOfTree(u) /\ dir' = [dir EXCEPT ![d] = "loose"]
                           /\ UNCHANGED cause
    /\ UNCHANGED <<create, attempt, late, metadata, temporary, faults>>

Secure(u) ==
    /\ pc[u] = "secure"
    /\ LET d == Tree[at[u]]
       IN  CASE dir[d] = "absent" -> Goto(u, "make") /\ UNCHANGED <<at, dir, cause>>
             [] dir[d] = "unsafe" -> Fail(u, "unsafe") /\ UNCHANGED <<at, dir>>
             [] OTHER -> NextOfTree(u) /\ MakeDir(d) /\ UNCHANGED cause
    /\ UNCHANGED <<create, attempt, late, metadata, temporary, faults>>

Make(u) ==
    /\ pc[u] = "make"
    /\ IF dir[Tree[at[u]]] = "absent"
         THEN NextOfTree(u) /\ MakeDir(Tree[at[u]]) /\ UNCHANGED cause
         ELSE Fail(u, "race") /\ UNCHANGED <<at, dir>>
    /\ UNCHANGED <<create, attempt, late, metadata, temporary, faults>>

(* _open_private_dir_at: nothing is repaired here.  A dry run is done at   *)
(* the first directory it misses.                                          *)
Open(u, d, found, missing) ==
    CASE dir[d] = "private" -> GotoAt(u, found, 1) /\ UNCHANGED cause
      [] dir[d] = "absent" /\ ~create[u] -> Goto(u, "resolved") /\ UNCHANGED <<at, cause>>
      [] dir[d] = "absent" /\ create[u] -> Goto(u, missing) /\ UNCHANGED <<at, cause>>
      [] OTHER -> Fail(u, "unsafe") /\ UNCHANGED at

OpenRoot(u) ==
    /\ pc[u] = "root"
    /\ Open(u, "root", "projects", "failed")
    /\ UNCHANGED <<create, attempt, late, diskVars, faults>>

OpenProjects(u) ==
    /\ pc[u] = "projects"
    /\ Open(u, "projects", "namespace", "make-projects")
    /\ UNCHANGED <<create, attempt, late, diskVars, faults>>

(* _ensure_private_dir_at: one that appeared in between is opened and      *)
(* validated like any other.                                               *)
MakeProjects(u) ==
    /\ pc[u] = "make-projects"
    /\ IF dir["projects"] \in {"absent", "private"}
         THEN Goto(u, "namespace") /\ MakeDir("projects") /\ UNCHANGED cause
         ELSE Fail(u, "unsafe") /\ UNCHANGED dir
    /\ UNCHANGED <<at, create, attempt, late, metadata, temporary, faults>>

(* Mutant: the identity of an existing namespace is not read.              *)
OpenNamespaceUnread(u) ==
    /\ pc[u] = "namespace"
    /\ Open(u, "namespace", "look", "make-namespace")
    /\ UNCHANGED <<create, attempt, late, diskVars, faults>>

OpenNamespace(u) ==
    /\ pc[u] = "namespace"
    /\ Open(u, "namespace", "read", "make-namespace")
    /\ UNCHANGED <<create, attempt, late, diskVars, faults>>

(* Only the user whose mkdir succeeded publishes the metadata.             *)
MakeNamespace(u) ==
    /\ pc[u] = "make-namespace"
    /\ CASE dir["namespace"] = "absent" ->
              Goto(u, "write") /\ MakeDir("namespace") /\ UNCHANGED cause
         [] dir["namespace"] = "private" -> Goto(u, "read") /\ UNCHANGED <<dir, cause>>
         [] OTHER -> Fail(u, "unsafe") /\ UNCHANGED dir
    /\ UNCHANGED <<at, create, attempt, late, metadata, temporary, faults>>

(* _publish_metadata: an exclusive temporary of its own, written and       *)
(* synced, linked to project.json without ever replacing it, unlinked.     *)
WriteTemporary(u) ==
    /\ pc[u] = "write"
    /\ temporary' = [temporary EXCEPT ![u] = IF @ = "none" THEN "empty" ELSE "whole"]
    /\ IF temporary[u] = "empty" THEN Goto(u, "link") ELSE UNCHANGED pc
    /\ UNCHANGED <<at, create, attempt, cause, late, dir, metadata, faults>>

LinkMetadata(u) ==
    /\ pc[u] = "link"
    /\ metadata' = IF metadata = "absent" THEN "whole" ELSE metadata
    /\ Goto(u, "unlink")
    /\ UNCHANGED <<at, create, attempt, cause, late, dir, temporary, faults>>

UnlinkTemporary(u) ==
    /\ pc[u] = "unlink"
    /\ temporary' = [temporary EXCEPT ![u] = "none"]
    /\ Goto(u, "read")
    /\ UNCHANGED <<at, create, attempt, cause, late, dir, metadata, faults>>

(* _read_metadata must find exactly the expected bytes; resolve_project_   *)
(* state repeats it a bounded number of times, for a creator still at work.*)
ReadMetadata(u) ==
    /\ pc[u] = "read"
    /\ IF metadata = "whole"
         THEN GotoAt(u, "look", 1) /\ UNCHANGED <<attempt, cause>>
         ELSE /\ attempt' = [attempt EXCEPT ![u] = @ + 1]
              /\ IF attempt[u] + 1 = Attempts THEN Fail(u, "metadata")
                                              ELSE UNCHANGED <<pc, cause>>
              /\ UNCHANGED at
    /\ UNCHANGED <<create, late, diskVars, faults>>

(* The children are all inspected before the first missing one is made.    *)
(* A dry run does not accept a missing child.                              *)
NextChild(u, stage, then) ==
    IF at[u] < Len(Children) THEN GotoAt(u, stage, at[u] + 1) ELSE GotoAt(u, then, 1)

LookAtChild(u) ==
    /\ pc[u] = "look"
    /\ IF dir[Children[at[u]]] \in {"private"} \cup (IF create[u] THEN {"absent"} ELSE {})
         THEN NextChild(u, "look", IF create[u] THEN "make-child" ELSE "resolved")
              /\ UNCHANGED cause
         ELSE Fail(u, "unsafe") /\ UNCHANGED at
    /\ UNCHANGED <<create, attempt, late, diskVars, faults>>

MakeChild(u) ==
    /\ pc[u] = "make-child"
    /\ IF dir[Children[at[u]]] \in {"absent", "private"}
         THEN NextChild(u, "make-child", "resolved") /\ MakeDir(Children[at[u]])
              /\ UNCHANGED cause
         ELSE Fail(u, "unsafe") /\ UNCHANGED <<at, dir>>
    /\ UNCHANGED <<create, attempt, late, metadata, temporary, faults>>

(* A call of a user that writes fails (no space, an I/O error); the        *)
(* temporary is unlinked on the way out.  Or the user is killed, and the   *)
(* temporary stays.                                                        *)
Disturbed(u) == pc[u] \in Resolving /\ faults < MaxFaults /\ faults' = faults + 1

CallFails(u) ==
    /\ Disturbed(u)
    /\ pc[u] \in {"make-lead-up", "secure", "make", "make-projects", "make-namespace",
                  "write", "link", "make-child"}
    /\ Fail(u, "error")
    /\ temporary' = [temporary EXCEPT ![u] = "none"]
    /\ UNCHANGED <<at, create, attempt, late, dir, metadata>>

KilledResolving(u) ==
    /\ Disturbed(u)
    /\ Goto(u, "killed")
    /\ UNCHANGED <<at, create, attempt, cause, late, diskVars>>

Resolve(u) ==
    \/ Start(u) \/ Inspect(u) \/ LeadUp(u) \/ MakeLeadUp(u) \/ Secure(u) \/ Make(u)
    \/ OpenRoot(u) \/ OpenProjects(u) \/ MakeProjects(u)
    \/ OpenNamespace(u) \/ MakeNamespace(u)
    \/ WriteTemporary(u) \/ LinkMetadata(u) \/ UnlinkTemporary(u) \/ ReadMetadata(u)
    \/ LookAtChild(u) \/ MakeChild(u)
    \/ CallFails(u) \/ KilledResolving(u)

-----------------------------------------------------------------------------
(* A user that resolved its project for real has what it was promised:     *)
(* every directory the user's own and closed to others, and the project's  *)
(* whole identity metadata.                                                *)
ResolvedIsPrivate ==
    \A u \in User : pc[u] = "resolved" /\ create[u] => Established

(* Once everything is in place no command is turned away: whatever other   *)
(* users are doing, one that starts now ends in its namespace, unless a    *)
(* call of its own fails.  The races of first users are over for good.     *)
LateUsersResolve == \A u \in late : cause[u] \in {"none", "error"}

(* The tree is inspected as a whole before any of it is changed, and so    *)
(* are the children of the namespace: while one entry is unsafe, nothing   *)
(* of its group is created or repaired.                                    *)
UnsafeLeavesGroup ==
    [][\A group \in {Elements(Tree), Elements(Children)} :
          (\E d \in group : dir[d] = "unsafe") =>
              \A d \in group : dir'[d] = dir[d]]_dir
=============================================================================
