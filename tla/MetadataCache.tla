---------------------------- MODULE MetadataCache ----------------------------
(***************************************************************************)
(* The disk cache of provider answers that concurrent update checks share: *)
(*   docker/versioning/cache.py           DiskCache, CachingHttpTransport  *)
(*   docker/versioning/cache_storage.py   open_ and publish_private_entry  *)
(*   docker/versioning/transports.py      the production transport         *)
(* A key is one request.  A session asks for a key once, so the memory     *)
(* tier never answers and is left out.  An entry is written under a        *)
(* temporary name every session shares, in several writes that stand for   *)
(* two, and renamed.  An open file is known by the session that created    *)
(* it: a second session that opens the same name truncates the same file,  *)
(* and goes on writing to it after the first has renamed it.               *)
(***************************************************************************)
EXTENDS Integers

CONSTANTS
    Session,     \* update checks
    Key,         \* requests
    TTL,         \* the reviewed [cache].ttl in ticks, Forever when there is none
    Forever,
    Releases,    \* how many releases a key's upstream can have
    MaxTime,     \* bound on the clock
    MaxOutages   \* bound on outages

None == "none"

ASSUME CacheAssumption ==
    /\ TTL \in Nat \cup {Forever} /\ Forever \notin Nat
    /\ None \notin Session
    /\ Releases \in Nat \ {0} /\ MaxTime \in Nat /\ MaxOutages \in Nat

VARIABLES
    now,        \* time.time() in ticks; a request and its write take less than one
    upstream,   \* per key: the releases published
    online,     \* whether requests reach the upstreams
    lastDown,   \* history: the last tick at which they did not
    outages,
    entry,      \* per key: the file under the final name
    spare,      \* per key: the file under the temporary name
    content,    \* per creator and key: the two parts of a file
    open,       \* per session: the file it writes, by its creator
    fetched,    \* per session: the answer it writes
    writing     \* per session: what it does next with it

cacheVars == <<entry, spare, content, open, fetched, writing>>
worldVars == <<now, upstream, online, lastDown, outages>>

(* An answer lists the releases of its time, or is the status 503 that the *)
(* transport makes of a connection error.                                  *)
Down == 0
Answer == [releases : 0..Releases, ts : 0..MaxTime]
Blank == [releases |-> Down, ts |-> MaxTime + 1]
File == Session \cup {None}

CacheTypeOK ==
    /\ now \in 0..MaxTime
    /\ upstream \in [Key -> 1..Releases]
    /\ online \in BOOLEAN /\ outages \in 0..MaxOutages
    /\ lastDown \in -1..MaxTime
    /\ entry \in [Key -> File] /\ spare \in [Key -> File]
    /\ content \in [Session \X Key -> [head : Answer \cup {Blank}, tail : Answer \cup {Blank}]]
    /\ open \in [Session -> File]
    /\ fetched \in [Session -> Answer \cup {Blank}]
    /\ writing \in [Session -> {"no", "open", "head", "tail", "rename"}]

Empty == [head |-> Blank, tail |-> Blank]

CacheInit ==
    /\ now = 0 /\ outages = 0
    /\ online \in BOOLEAN /\ lastDown = IF online THEN -1 ELSE 0
    /\ upstream = [k \in Key |-> 1]
    /\ entry = [k \in Key |-> None] /\ spare = [k \in Key |-> None]
    /\ content = [f \in Session \X Key |-> Empty]
    /\ open = [s \in Session |-> None]
    /\ fetched = [s \in Session |-> Blank]
    /\ writing = [s \in Session |-> "no"]

-----------------------------------------------------------------------------
(* DiskCache.get.  An entry that does not parse is a miss.  Two parts of   *)
(* one length written by two sessions parse: the head has the timestamp,   *)
(* the tail most of the body, which may make no sense.                     *)

Garbled == [releases |-> Releases + 1, ts |-> 0]

(* Mutant: the age of an entry is not looked at.                           *)
ExpiredNever(ts) == FALSE

Expired(ts) == TTL # Forever /\ now - ts > TTL

Served(k) ==
    IF entry[k] = None THEN {}
    ELSE LET file == content[entry[k], k]
         IN  IF Blank \in {file.head, file.tail} \/ Expired(file.head.ts) THEN {}
             ELSE IF file.head = file.tail THEN {file.head} ELSE {file.tail, Garbled}

Miss(k) == Served(k) = {} \/ Garbled \in Served(k)

(* The delegate transport.  Whatever its status, the answer is kept.       *)
Fetched(k) == [releases |-> IF online THEN upstream[k] ELSE Down, ts |-> now]

(* DiskCache.set begins: the payload is complete before the file is opened. *)
Keep(s, answer) ==
    /\ fetched' = [fetched EXCEPT ![s] = answer]
    /\ writing' = [writing EXCEPT ![s] = "open"]
    /\ UNCHANGED <<entry, spare, content, open>>

(* open_private_entry truncates what is there under the shared name.       *)
OpenSpare(s, k) ==
    /\ writing[s] = "open"
    /\ LET file == IF spare[k] = None THEN s ELSE spare[k]
       IN  /\ spare' = [spare EXCEPT ![k] = file]
           /\ content' = [content EXCEPT ![<<file, k>>] = Empty]
           /\ open' = [open EXCEPT ![s] = file]
    /\ writing' = [writing EXCEPT ![s] = "head"]
    /\ UNCHANGED <<entry, fetched>>

WriteHead(s, k) ==
    /\ writing[s] = "head"
    /\ content' = [content EXCEPT ![<<open[s], k>>].head = fetched[s]]
    /\ writing' = [writing EXCEPT ![s] = "tail"]
    /\ UNCHANGED <<entry, spare, open, fetched>>

WriteTail(s, k) ==
    /\ writing[s] = "tail"
    /\ content' = [content EXCEPT ![<<open[s], k>>].tail = fetched[s]]
    /\ writing' = [writing EXCEPT ![s] = "rename"]
    /\ UNCHANGED <<entry, spare, open, fetched>>

Closed(s) ==
    /\ open' = [open EXCEPT ![s] = None]
    /\ fetched' = [fetched EXCEPT ![s] = Blank]
    /\ writing' = [writing EXCEPT ![s] = "no"]

(* publish_private_entry renames whatever has the temporary name by then.  *)
PublishSpare(s, k) ==
    /\ writing[s] = "rename" /\ spare[k] # None
    /\ entry' = [entry EXCEPT ![k] = spare[k]]
    /\ spare' = [spare EXCEPT ![k] = None]
    /\ Closed(s)
    /\ UNCHANGED content

(* Another session renamed it first, or a call fails.                      *)
KeepFails(s, k) ==
    /\ writing[s] # "no"
    /\ Closed(s)
    /\ UNCHANGED <<entry, spare, content>>

-----------------------------------------------------------------------------
(* The outside world.                                                      *)

Tick ==
    /\ now < MaxTime
    /\ \A s \in Session : writing[s] = "no"
    /\ now' = now + 1
    /\ lastDown' = IF online THEN lastDown ELSE now + 1
    /\ UNCHANGED <<upstream, online, outages, cacheVars>>

Release(k) ==
    /\ \E n \in upstream[k] + 1..Releases : upstream' = [upstream EXCEPT ![k] = n]
    /\ UNCHANGED <<now, online, lastDown, outages, cacheVars>>

GoDown ==
    /\ online /\ outages < MaxOutages
    /\ online' = FALSE /\ lastDown' = now
    /\ outages' = outages + 1
    /\ UNCHANGED <<now, upstream, cacheVars>>

ComeBack ==
    /\ ~online
    /\ online' = TRUE
    /\ UNCHANGED <<now, upstream, lastDown, outages, cacheVars>>

World == Tick \/ (\E k \in Key : Release(k)) \/ GoDown \/ ComeBack
=============================================================================
