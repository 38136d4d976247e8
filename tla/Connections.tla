----------------------------- MODULE Connections -----------------------------
(***************************************************************************)
(* What the connections of a server share: the cache of destinations that  *)
(* GLOBAL does not look into, and the list of connections, which a         *)
(* goroutine keeps from what they send it without waiting: additions on    *)
(* one channel, removals on another.  ConnLink has one connection alone.   *)
(***************************************************************************)
EXTENDS Naturals, Sequences, FiniteSets

CONSTANTS
    Srcs, Dests,      \* addresses of clients and of servers
    MaxConns,         \* bound: connections
    Capacity          \* of each channel

ASSUME CapacityAssumption == MaxConns \in Nat /\ Capacity \in Nat \ {0}

VARIABLES
    cfg,              \* rewrite mode and MitM
    conn,             \* the connections, in the order they were made
    cache,            \* Server.Cache
    adds, removes,    \* the channels of ConnectionRecordList
    list,             \* its records
    stray, gone       \* keys whose removal, or addition, the list has missed
recordVars == <<cfg, conn, cache, adds, removes, list, stray, gone>>

Key(c)     == <<conn[c].src, conn[c].dst>>
IsOpen(c)  == conn[c].st # "closed"
OpenKeys   == {Key(c) : c \in {c \in DOMAIN conn : IsOpen(c)}}
Listed     == {rec.key : rec \in list}
QueuedKeys == {adds[i].key : i \in DOMAIN adds}
Moved(c, st) == conn' = [conn EXCEPT ![c].st = st]

RecordsInit ==
    /\ cfg \in [mode : {"GLOBAL", "RULE"}, mitm : BOOLEAN] \cup {[mode |-> "DIRECT", mitm |-> FALSE]}
    /\ conn = <<>> /\ cache = {}
    /\ adds = <<>> /\ removes = <<>> /\ list = {} /\ stray = {} /\ gone = {}

-----------------------------------------------------------------------------
(* Connections.  A record is sent or, when the channel is full, forgotten; old:
   it is that of a connection made before the last cleanup.                  *)

AddRecord(key, first) ==
    IF Len(adds) < Capacity
    THEN /\ adds' = Append(adds, [key |-> key, first |-> first, old |-> FALSE])
         /\ UNCHANGED gone
    ELSE gone' = gone \cup {key} /\ UNCHANGED adds
RemoveRecord(key) ==
    IF Len(removes) < Capacity
    THEN removes' = Append(removes, key) /\ UNCHANGED stray
    ELSE stray' = stray \cup {key} /\ UNCHANGED removes
Silent == UNCHANGED <<adds, gone>>
NoMore == UNCHANGED <<cfg, removes, list, stray>>

(* Two open connections differ in an address.  What a client is going to say
   is what it is for: app.                                                   *)
ServeConnLink(s, d, app) ==
    /\ Len(conn) < MaxConns /\ <<s, d>> \notin OpenKeys
    /\ LET known == cfg.mode = "GLOBAL" /\ d \in cache
       IN  conn' = Append(conn, [src |-> s, dst |-> d, app |-> app, known |-> known, white |-> FALSE,
                                 mitm |-> FALSE,
                                 st |-> IF known \/ cfg.mode = "DIRECT" THEN "copy" ELSE "tls?"])
    /\ AddRecord(<<s, d>>, TRUE)
    /\ NoMore /\ UNCHANGED cache

SniffTLS(c) ==
    /\ conn[c].st = "tls?"
    /\ IF conn[c].app = "tls"
       THEN /\ cache' = cache \cup {conn[c].dst} /\ AddRecord(Key(c), FALSE)
            /\ IF cfg.mitm THEN Moved(c, "hello") ELSE Moved(c, "http?")
       ELSE Moved(c, "http?") /\ Silent /\ UNCHANGED cache
    /\ NoMore

(* Whether the host is one to intercept, and both handshakes. *)
HandleTLS(c) ==
    /\ conn[c].st = "hello"
    /\ \/ conn' = [conn EXCEPT ![c].st = "http?", ![c].mitm = TRUE]
       \/ Moved(c, "copy")
    /\ Silent /\ NoMore /\ UNCHANGED cache

MayBeHTTP(c) == conn[c].app = "http" \/ conn[c].mitm
SniffHTTPRequest(c) ==
    /\ conn[c].st = "http?"
    /\ \/ /\ MayBeHTTP(c) /\ Moved(c, "loop")
          /\ AddRecord(Key(c), FALSE)
          /\ UNCHANGED cache
       \/ /\ conn[c].app # "http" /\ Moved(c, "copy")
          /\ cache' = cache \cup {conn[c].dst} /\ Silent
       \/ Moved(c, "copy") /\ Silent /\ UNCHANGED cache       \* the client sends too little
    /\ NoMore

(* A request that goes on; its agent is one of the whitelist or not. *)
MutantNeedCache(white) == cfg.mode = "GLOBAL" /\ ~white
NeedCache(white) == cfg.mode = "GLOBAL" /\ white
RewriteRequest(c) ==
    /\ conn[c].st = "loop"
    /\ \E white \in BOOLEAN :
          /\ conn' = [conn EXCEPT ![c].white = @ \/ white]
          /\ cache' = IF NeedCache(white) THEN cache \cup {conn[c].dst} ELSE cache
    /\ Silent /\ NoMore
Upgrade(c) ==
    /\ conn[c].st = "loop" /\ Moved(c, "copy") /\ AddRecord(Key(c), FALSE)
    /\ NoMore /\ UNCHANGED cache
SniffHTTPFast(c) ==
    /\ conn[c].st = "loop"
    /\ \/ Moved(c, "copy") /\ AddRecord(Key(c), FALSE)         \* the peek fails
       \/ Moved(c, "copy") /\ Silent      \* no HTTP, malformed, refused, or not to be written
    /\ NoMore /\ UNCHANGED cache

(* A plain request to the HTTP proxy has a record of its own; which requests
   of what client it follows is HttpRules'.                                  *)
handleHTTP(s, d) ==
    /\ Len(conn) < MaxConns /\ <<s, d>> \notin OpenKeys
    /\ conn' = Append(conn, [src |-> s, dst |-> d, app |-> "http", known |-> FALSE, white |-> FALSE,
                             mitm |-> FALSE, st |-> "plain"])
    /\ AddRecord(<<s, d>>, TRUE)
    /\ NoMore /\ UNCHANGED cache
ForwardHTTP(c) ==
    /\ conn[c].st = "plain"
    /\ \E white \in BOOLEAN :
          /\ conn' = [conn EXCEPT ![c].white = @ \/ white, ![c].st = "copy"]
          /\ cache' = IF NeedCache(white) THEN cache \cup {conn[c].dst} ELSE cache
    /\ Silent /\ NoMore

(* The copy ends, and ServeConnLink or handleHTTP with it. *)
MutantEnd(c) ==
    /\ conn[c].st = "copy" /\ Moved(c, "closed") /\ RemoveRecord(<<conn[c].dst, conn[c].src>>)
    /\ Silent /\ UNCHANGED <<cfg, cache, list>>
End(c) ==
    /\ conn[c].st = "copy" /\ Moved(c, "closed") /\ RemoveRecord(Key(c))
    /\ Silent /\ UNCHANGED <<cfg, cache, list>>

(* An entry of the cache lives for 30 minutes, or until 512 others push it out. *)
Expire(d) == d \in cache /\ cache' = cache \ {d}
             /\ UNCHANGED <<cfg, conn, adds, removes, list, stray, gone>>

-----------------------------------------------------------------------------
(* The goroutine of ConnectionRecordList.  Its select takes either channel.
   What an addition to a listed key changes is the protocol that is shown.   *)

Add ==
    /\ adds # <<>> /\ adds' = Tail(adds)
    /\ LET rec == Head(adds)
       IN  list' = IF rec.key \in Listed THEN list ELSE list \cup {[key |-> rec.key, old |-> rec.old]}
    /\ gone' = gone \ {Head(adds).key}
    /\ UNCHANGED <<cfg, conn, cache, removes, stray>>

Remove ==
    /\ removes # <<>> /\ removes' = Tail(removes)
    /\ LET key == Head(removes)
       IN  /\ list' = {x \in list : x.key # key}
           /\ stray' = IF key \in QueuedKeys THEN stray \cup {key} ELSE stray \ {key}
           /\ gone' = IF key \in OpenKeys THEN gone \cup {key} ELSE gone
    /\ UNCHANGED <<cfg, conn, cache, adds>>

(* Once in 24 hours, what is older than 24 hours; a record that was sent
   without a start time starts when it is added.                            *)
MutantExpired == {x \in list : ~x.old}
Expired == {x \in list : x.old}
Cleanup ==
    /\ list' = {[x EXCEPT !.old = TRUE] : x \in list \ Expired}
    /\ adds' = [i \in DOMAIN adds |-> [adds[i] EXCEPT !.old = adds[i].first]]
    /\ gone' = gone \cup {x.key : x \in Expired}
    /\ UNCHANGED <<cfg, conn, cache, removes, stray>>

-----------------------------------------------------------------------------
Work(c) == \/ SniffTLS(c) \/ HandleTLS(c) \/ SniffHTTPRequest(c)
           \/ RewriteRequest(c) \/ ForwardHTTP(c) \/ Upgrade(c) \/ SniffHTTPFast(c) \/ End(c)
RecordsNext ==
    \/ \E s \in Srcs, d \in Dests, app \in {"tls", "http", "other"} : ServeConnLink(s, d, app)
    \/ \E s \in Srcs, d \in Dests : handleHTTP(s, d)
    \/ \E c \in DOMAIN conn : Work(c)
    \/ \E d \in Dests : Expire(d)
    \/ Add \/ Remove \/ Cleanup

(* The goroutine runs; its select is fair to its channels, and the ticker ticks. *)
RecordsSpec == /\ RecordsInit /\ [][RecordsNext]_recordVars
               /\ WF_recordVars(Add) /\ WF_recordVars(Remove) /\ WF_recordVars(Cleanup)

-----------------------------------------------------------------------------
(* Additions and removals overtake each other and get lost.  A connection that
   is over is listed only as long as its removal is in the channel, or when the
   removal was dropped or taken before an addition it had sent earlier; one
   that is open is missing only as long as the list has not heard of it, or
   when an addition was dropped, the removal of an earlier connection between
   the same addresses came late, or it is older than a day.                  *)
ListExplained ==
    /\ \A k \in Listed \ OpenKeys :
          k \in stray \/ \E i \in DOMAIN removes : removes[i] = k
    /\ \A k \in OpenKeys \ Listed : k \in gone \cup QueuedKeys

(* Whatever was lost, nothing stays on the list for good. *)
ForgottenInTheEnd ==
    \A k \in Srcs \X Dests :
        k \notin OpenKeys \cup QueuedKeys ~> k \in OpenKeys \cup QueuedKeys \/ k \notin Listed

(* DIRECT inspects nothing, by its configuration.  Under GLOBAL a connection
   goes uninspected only to where an earlier one has spoken TLS, something
   other than HTTP, or shown a whitelisted agent; in rule mode every
   connection is looked into, whatever others have shown.                     *)
UninspectedHasCause ==
    \A c \in DOMAIN conn : conn[c].known =>
        /\ cfg.mode = "GLOBAL"
        /\ \E e \in 1..c-1 : conn[e].dst = conn[c].dst /\ (conn[e].app # "http" \/ conn[e].white)
===============================================================================
