------------------------------ MODULE Inventory ------------------------------
(***************************************************************************)
(* The reviewed inventory as update checks see it, without state:          *)
(*   docker/versioning/inventory.py   what load_inventory admits           *)
(*   docker/versioning/providers/     what each provider takes for newest  *)
(*   docker/versioning/updates.py     classification, and the overlay of a *)
(*                                    candidate onto the raw block         *)
(* An entry stands for one update target.  Versions are numbered in the    *)
(* order of their releases, which is their precedence; the digests of an   *)
(* image, an installer or a revision are numbered the same way.            *)
(***************************************************************************)
EXTENDS Naturals, FiniteSets

CONSTANTS
    Entry,        \* update targets
    Platform,     \* artifact platforms
    KindOf,       \* the kind of each entry
    OwnerOf,      \* the entry whose block is replaced with each entry
    Required,     \* per entry: required_platforms of its update policy
    Allowed,      \* per entry: the versions its override constraint admits
    Versions,     \* how many versions there are
    Prerelease,   \* the versions with a prerelease suffix
    Unflagged,    \* those the release API does not flag as prereleases
    Assets,       \* per version: the platforms released with a checksum
    Tarballs      \* the versions whose registry entry has a valid tarball

Version == 1..Versions
NoVersion == 0

Kind == {"image", "rust", "rustup", "release", "python", "ty", "npm", "pi", "git", "extension"}

ASSUME InventoryAssumption ==
    /\ Versions \in Nat \ {0}
    /\ KindOf \in [Entry -> Kind]
    /\ OwnerOf \in [Entry -> Entry]
    /\ \A e \in Entry : KindOf[e] # "rustup" => OwnerOf[e] = e
    /\ Required \in [Entry -> SUBSET Platform]
    /\ Allowed \in [Entry -> SUBSET Version]
    /\ Unflagged \subseteq Prerelease /\ Prerelease \subseteq Version
    /\ Assets \in [Version -> SUBSET Platform]
    /\ Tarballs \subseteq Version

Highest(S) == CHOOSE v \in S : \A w \in S : w <= v

(* The raw leaves a candidate may touch: the version, digest or revision;  *)
(* the version the source names (a release tag, a channel manifest); the   *)
(* version each platform's URL names; the extension's catalogue.           *)
Block == [version : Version, source : Version \cup {NoVersion},
          urls : [Platform -> Version \cup {NoVersion}], catalogue : SUBSET Version]

-----------------------------------------------------------------------------
(* What the loader admits.                                                 *)

Declared(block) == {p \in Platform : block.urls[p] # NoVersion}

(* _validate_rust_version, _validate_uv_version, _validate_npm_version,    *)
(* _validate_prebuilt_version and parse_numeric_version take X.Y.Z only;   *)
(* _validate_extension_version takes every semantic version.               *)
Exact == {"rust", "release", "python", "ty", "npm", "pi"}
AdmissibleVersion(e, v) == KindOf[e] \in Exact => v \notin Prerelease

(* A release's tag is the declared version, linux-amd64 and every required *)
(* platform have an artifact, and every artifact's URL names the version.  *)
AdmissibleRelease(e, block) ==
    /\ block.source = block.version
    /\ "linux-amd64" \in Declared(block)
    /\ \A p \in Declared(block) : block.urls[p] = block.version
    /\ Required[e] \subseteq Declared(block)

(* The default version of an extension has an entry in its catalogue and   *)
(* satisfies the override constraint.                                      *)
AdmissibleExtension(e, block) ==
    /\ block.version \in block.catalogue
    /\ block.version \in Allowed[e]

Admissible(e, block) ==
    /\ AdmissibleVersion(e, block.version)
    /\ KindOf[e] = "release" => AdmissibleRelease(e, block)
    /\ KindOf[e] = "extension" => AdmissibleExtension(e, block)
    /\ KindOf[e] = "rust" => block.source = block.version
    /\ KindOf[e] = "python" => block.version \in Allowed[e]

Loads(doc) == \A e \in Entry : Admissible(e, doc[e])

-----------------------------------------------------------------------------
(* What a provider takes from an answer that lists the first n releases.   *)

Uncached == {"image", "git"}
Opaque == {"image", "rustup", "git"}

(* The npm registry: every published semantic version.                     *)
NpmReleases(n, prereleases) == {v \in 1..n : prereleases \/ v \notin Prerelease}

(* PyPI: every version with a file that is not yanked.                     *)
PypiReleases(n, prereleases) == {v \in 1..n : prereleases \/ v \notin Prerelease}

(* GitHub: what the author flagged as a prerelease is dropped, whatever    *)
(* the tag says.                                                           *)
GithubReleases(n, prereleases) == {v \in 1..n : prereleases \/ v \notin Prerelease \ Unflagged}

(* The channel manifest and uv's download list match X.Y.Z only.           *)
ChannelRust(n) == 1..n \ Prerelease
PythonDownloads(n) == 1..n \ Prerelease

(* A tag's digest, an installer's and a branch's head are just the newest. *)
TagDigest(n) == {n}
InstallerDigest(n) == {n}
BranchHead(n) == {n}

Eligible(e, n, prereleases) ==
    CASE KindOf[e] \in {"npm", "extension", "pi"} -> NpmReleases(n, prereleases)
      [] KindOf[e] = "ty" -> PypiReleases(n, prereleases)
      [] KindOf[e] = "release" -> GithubReleases(n, prereleases)
      [] KindOf[e] = "rust" -> ChannelRust(n)
      [] KindOf[e] = "python" -> PythonDownloads(n)
      [] KindOf[e] = "image" -> TagDigest(n)
      [] KindOf[e] = "rustup" -> InstallerDigest(n)
      [] KindOf[e] = "git" -> BranchHead(n)

Skipped == [status |-> "skipped", candidate |-> NoVersion, platforms |-> {}]
Unavailable == [Skipped EXCEPT !.status = "unavailable"]
Current(v) == [status |-> "current", candidate |-> v, platforms |-> {}]

(* Assets are looked for on the required platforms the entry declares.     *)
FoundAssets(e, block, v) ==
    IF KindOf[e] = "release" THEN Required[e] \cap Declared(block) \cap Assets[v] ELSE {}

Complete(e, block, v) ==
    /\ KindOf[e] = "release" => Required[e] \subseteq FoundAssets(e, block, v)
    /\ KindOf[e] = "python" => v \in Allowed[e]
    /\ KindOf[e] = "extension" => v \in Tarballs

(* _classify_candidate of what the provider discovered.                    *)
Classified(e, block, n, prereleases) ==
    LET known == Eligible(e, n, prereleases)
        best == Highest(known)
    IN  IF KindOf[e] = "pi" \/ known = {} THEN Skipped
        ELSE IF best = block.version \/ (KindOf[e] \notin Opaque /\ best < block.version)
             THEN Current(block.version)
        ELSE [status |-> IF Complete(e, block, best) THEN "outdated" ELSE "incomplete",
              candidate |-> best, platforms |-> FoundAssets(e, block, best)]

-----------------------------------------------------------------------------
(* Mutant: only the version is replaced.                                   *)
OverlaidBare(e, block, result, checked) ==
    IF result.status # "outdated" THEN block ELSE [block EXCEPT !.version = result.candidate]

(* overlay_candidates: the leaves of the raw block the candidate replaces. *)
(* The manifest is re-pointed only if it names the version the check read. *)
Overlaid(e, block, result, checked) ==
    IF result.status # "outdated" THEN block
    ELSE LET v == result.candidate
         IN  [block EXCEPT
                !.version = v,
                !.source = IF KindOf[e] = "release" \/ (KindOf[e] = "rust" /\ @ = checked)
                             THEN v ELSE @,
                !.urls = [p \in Platform |-> IF p \in result.platforms THEN v ELSE @[p]],
                !.catalogue = IF KindOf[e] = "extension" THEN @ \cup {v} ELSE @]
=============================================================================
