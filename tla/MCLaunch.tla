------------------------------ MODULE MCLaunch ------------------------------
(* A small instance of Launch: what the first, the usual and the unlucky   *)
(* user find on the disk.                                                  *)
EXTENDS Launch, TLC
CONSTANTS u1, u2, v1, v2

Pkgs2 == <<"a", "b">>
Tree1 == <<"versioning">>
Kids2 == <<"runtime", "transactions">>
Filled(entry) == [d \in Dir |-> entry]

(* A first user; a root of its own but no namespace; everything in place;  *)
(* a root left open to others; an unsafe descendant, an unsafe child, a    *)
(* namespace without metadata and one of another project.                  *)
Fresh == {[dir |-> Filled("absent"), metadata |-> "absent"]}
Whole == {[dir |-> Filled("private"), metadata |-> "whole"]}
Odd ==
    LET ready == Filled("private")
        rooted == [d \in Dir |-> IF d \in {"lead-up", "root"} THEN "private" ELSE "absent"]
    IN  {[dir |-> rooted, metadata |-> "absent"],
         [dir |-> [rooted EXCEPT !["root"] = "loose"], metadata |-> "absent"],
         [dir |-> [rooted EXCEPT !["root"] = "loose", !["versioning"] = "unsafe"],
          metadata |-> "absent"],
         [dir |-> [ready EXCEPT !["namespace"] = "loose"], metadata |-> "absent"],
         [dir |-> [ready EXCEPT !["runtime"] = "absent", !["transactions"] = "unsafe"],
          metadata |-> "whole"],
         [dir |-> ready, metadata |-> "absent"],
         [dir |-> ready, metadata |-> "foreign"]}
AllDisks == Fresh \cup Whole \cup Odd

(* One question at a time: the unusual disks meet an up-to-date Pi home.   *)
MCInit ==
    /\ Init
    /\ ~Established => alien = {} /\ \A u \in User : wanted[u] = v1
    /\ ~Established => \A p \in Package, f \in File : home[p][f] = v1
(* One thing goes wrong, with a launcher or with a container.               *)
OneFault == faults + upset <= 1
MCSpec == MCInit /\ [][Next]_vars
Symmetry == Permutations(User)
=============================================================================
