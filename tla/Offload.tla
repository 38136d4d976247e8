------------------------------- MODULE Offload -------------------------------
(***************************************************************************)
(* The sockmap fast path of one connection.  TryOffload puts both sockets  *)
(* into two BPF maps, and the kernel then moves what arrives on one to the *)
(* other; the copies in user space start all the same, and take what the   *)
(* kernel leaves them.  When the request direction has ended the entries   *)
(* are deleted, while the response direction goes on.                      *)
(*                                                                         *)
(* A chunk is known by its number in the stream of its sender.  todo lists *)
(* what the goroutine of ServeConnLink has still to do before it copies or *)
(* returns.  What the kernel has once passed to user space stays readable. *)
(* A definition named Mutant... is the one after it with a plausible fault *)
(* in it; the specification does not use it.                               *)
(***************************************************************************)
EXTENDS Naturals, Sequences, FiniteSets, SequencesExt

CONSTANTS
    MaxChunks,   \* bound: chunks each end sends
    MaxFaults    \* bound: system calls that fail

ASSUME BoundsAssumption == MaxChunks \in Nat /\ MaxFaults \in Nat

VARIABLES
    mode,       \* "DIRECT": offloaded at once; "SNIFF": when the first bytes are not HTTP
    sm,         \* the Sockmap: "nil", "link", "raw" (how it was attached), "closed"
    sockhash,   \* sides whose cookie leads to their socket
    peer,       \* sides whose cookie leads to the other's
    offloaded,  \* ConnLink.Offloaded
    todo,       \* steps the goroutine of the request direction has still to take
    sent, ended,  \* of each end: chunks it has sent, and whether it has finished
    sock,       \* of each side: chunks in its socket that no program has seen
    passed,     \* chunks the verdict program has left to user space
    buf,        \* chunks in sniffReader
    copy, held, \* of each direction: the state of its copy and the chunk it holds
    out,        \* of each sender: what the other end has got, in order
    lost,       \* of each sender: chunks the verdict program has dropped
    unpaired,   \* Peer.Update(lc, rc) has failed
    faults

maps == <<sm, sockhash, peer, offloaded, unpaired>>
ends == <<sent, ended>>
streams == <<sock, passed, buf, copy, held, out, lost>>
offloadVars == <<mode, maps, todo, ends, streams, faults>>

Sides == {"l", "r"}
Other(x) == IF x = "l" THEN "r" ELSE "l"
Do(op, x) == [op |-> op, side |-> x]

(* sockmap.Add, and what it undoes when one of its updates fails. *)
Add == <<Do("hash", "l"), Do("hash", "r"), Do("peer", "r"), Do("peer", "l"), Do("on", "l")>>
Undo(s) ==
    CASE s = Do("hash", "r") -> <<Do("unhash", "l")>>
      [] s = Do("peer", "r") -> <<Do("unhash", "l"), Do("unhash", "r")>>
      [] s = Do("peer", "l") -> <<Do("unpeer", "l"), Do("unhash", "l"), Do("unhash", "r")>>
      [] OTHER -> <<>>

MutantDelete == <<Do("unhash", "l"), Do("unhash", "r"), Do("unpeer", "l"), Do("unpeer", "r")>>
Delete == <<Do("unpeer", "l"), Do("unpeer", "r"), Do("unhash", "l"), Do("unhash", "r")>>

MutantTryOffload == (IF sm = "nil" THEN <<>> ELSE <<Do("fds", "l")>> \o Add \o <<Do("drain", "l")>>)
                    \o <<Do("copy", "l")>>
TryOffload == (IF sm = "nil" THEN <<>> ELSE <<Do("drain", "l"), Do("fds", "l")>> \o Add)
              \o <<Do("copy", "l")>>

(* NewSockmap attaches its programs in one of two ways, or is not asked to. *)
NewSockmap == {"nil", "link", "raw"}

OffloadInit ==
    /\ mode \in {"DIRECT", "SNIFF"} /\ sm \in NewSockmap
    /\ sockhash = {} /\ peer = {} /\ offloaded = FALSE /\ unpaired = FALSE
    /\ todo = IF mode = "DIRECT" THEN TryOffload ELSE <<Do("sniff", "l")>>
    /\ sent = [x \in Sides |-> 0] /\ ended = [x \in Sides |-> FALSE]
    /\ sock = [x \in Sides |-> <<>>] /\ passed = [x \in Sides |-> <<>>] /\ buf = <<>>
    /\ copy = [x \in Sides |-> IF mode = "SNIFF" /\ x = "r" THEN "read" ELSE "off"]
    /\ held = [x \in Sides |-> <<>>]
    /\ out = [x \in Sides |-> <<>>] /\ lost = [x \in Sides |-> {}] /\ faults = 0

-----------------------------------------------------------------------------
(* stream_verdict looks at what is in a socket of the map when more arrives:
   it goes to the socket of the peer, is dropped if that is not in the map,
   and to user space if there is no peer.                                   *)
stream_verdict(x, chunks) ==
    \/ /\ x \in peer /\ Other(x) \in sockhash
       /\ out' = [out EXCEPT ![x] = @ \o chunks] /\ UNCHANGED <<passed, lost>>
    \/ /\ x \in peer /\ Other(x) \notin sockhash
       /\ lost' = [lost EXCEPT ![x] = @ \cup ToSet(chunks)] /\ UNCHANGED <<passed, out>>
    \/ /\ x \notin peer
       /\ passed' = [passed EXCEPT ![x] = @ \o chunks] /\ UNCHANGED <<out, lost>>

HostSend(x) ==
    /\ ~ended[x] /\ sent[x] < MaxChunks
    /\ sent' = [sent EXCEPT ![x] = @ + 1]
    /\ IF x \in sockhash
       THEN stream_verdict(x, Append(sock[x], sent'[x])) /\ sock' = [sock EXCEPT ![x] = <<>>]
       ELSE sock' = [sock EXCEPT ![x] = Append(@, sent'[x])] /\ UNCHANGED <<passed, out, lost>>
    /\ UNCHANGED <<mode, maps, todo, ended, buf, copy, held, faults>>

HostEnd(x) ==
    /\ ~ended[x] /\ ended' = [ended EXCEPT ![x] = TRUE]
    /\ UNCHANGED <<mode, maps, todo, sent, streams, faults>>

(* CopyLR and CopyRL. *)
CopyRead(x) ==
    /\ copy[x] = "read" /\ held[x] = <<>>
    /\ \/ /\ x = "l" /\ buf # <<>>
          /\ held' = [held EXCEPT ![x] = buf] /\ buf' = <<>> /\ UNCHANGED <<passed, sock>>
       \/ /\ x = "l" => buf = <<>>
          /\ passed[x] # <<>>
          /\ held' = [held EXCEPT ![x] = passed[x]] /\ passed' = [passed EXCEPT ![x] = <<>>]
          /\ UNCHANGED <<buf, sock>>
       \/ /\ x = "l" => buf = <<>>
          /\ passed[x] = <<>> /\ sock[x] # <<>>
          /\ held' = [held EXCEPT ![x] = sock[x]] /\ sock' = [sock EXCEPT ![x] = <<>>]
          /\ UNCHANGED <<buf, passed>>
    /\ UNCHANGED <<mode, maps, todo, ends, copy, out, lost, faults>>
CopyWrite(x) ==
    /\ held[x] # <<>>
    /\ out' = [out EXCEPT ![x] = @ \o held[x]] /\ held' = [held EXCEPT ![x] = <<>>]
    /\ UNCHANGED <<mode, maps, todo, ends, sock, passed, buf, copy, lost, faults>>
Unread(x) == (IF x = "l" THEN buf ELSE <<>>) \o passed[x] \o sock[x] \o held[x]
(* The end of the request direction ends ServeConnLink, whose deferred call
   is DeleteOffload.                                                        *)
CopyEnd(x) ==
    /\ copy[x] = "read" /\ ended[x] /\ Unread(x) = <<>>
    /\ copy' = [copy EXCEPT ![x] = "done"]
    /\ todo' = IF x = "l" /\ offloaded THEN Delete ELSE todo
    /\ UNCHANGED <<mode, maps, ends, sock, passed, buf, held, out, lost, faults>>

-----------------------------------------------------------------------------
(* The steps of TryOffload and DeleteOffload. *)
Step == Head(todo)
Doing(ops) == todo # <<>> /\ Step.op \in ops
Proceed == todo' = Tail(todo)

(* ProcessLR: what has come is read into sniffReader, and is not HTTP. *)
Sniff ==
    /\ Doing({"sniff"}) /\ sock["l"] # <<>>
    /\ buf' = sock["l"] /\ sock' = [sock EXCEPT !["l"] = <<>>]
    /\ todo' = TryOffload
    /\ UNCHANGED <<mode, maps, ends, passed, copy, held, out, lost, faults>>
SniffEOF ==
    /\ Doing({"sniff"}) /\ sock["l"] = <<>> /\ ended["l"]
    /\ todo' = <<Do("copy", "l")>>
    /\ UNCHANGED <<mode, maps, ends, streams, faults>>

Drain ==
    /\ Doing({"drain"})
    /\ out' = [out EXCEPT !["l"] = @ \o buf] /\ buf' = <<>>
    /\ Proceed /\ UNCHANGED <<mode, maps, ends, sock, passed, copy, held, lost, faults>>

(* LFD, RFD and the cookies. *)
Cookies ==
    /\ Doing({"fds"}) /\ Proceed
    /\ UNCHANGED <<mode, maps, ends, streams, faults>>

Put ==
    /\ Doing({"hash", "peer"}) /\ sm # "closed"
    /\ IF Step.op = "hash" THEN sockhash' = sockhash \cup {Step.side} /\ UNCHANGED peer
                           ELSE peer' = peer \cup {Step.side} /\ UNCHANGED sockhash
    /\ Proceed /\ UNCHANGED <<mode, sm, offloaded, unpaired, ends, streams, faults>>

(* An update fails: the map is full, or closed; or a connection has no file
   descriptor.  The connection is copied.                                   *)
PutFails ==
    /\ Doing({"fds", "hash", "peer"})
    /\ IF sm = "closed" /\ Step.op # "fds" THEN UNCHANGED faults
       ELSE faults < MaxFaults /\ faults' = faults + 1
    /\ todo' = Undo(Step) \o <<Do("copy", "l")>>
    /\ unpaired' = (unpaired \/ Step = Do("peer", "l"))
    /\ UNCHANGED <<mode, sm, sockhash, peer, offloaded, ends, streams>>

Erase ==
    /\ Doing({"unhash", "unpeer"})
    /\ IF sm = "closed" THEN UNCHANGED <<sockhash, peer>>
       ELSE IF Step.op = "unhash" THEN sockhash' = sockhash \ {Step.side} /\ UNCHANGED peer
                                  ELSE peer' = peer \ {Step.side} /\ UNCHANGED sockhash
    /\ Proceed /\ UNCHANGED <<mode, sm, offloaded, unpaired, ends, streams, faults>>

Activated ==
    /\ Doing({"on"}) /\ offloaded' = TRUE
    /\ Proceed /\ UNCHANGED <<mode, sm, sockhash, peer, unpaired, ends, streams, faults>>

(* ServeConnLink and ProcessLR go on to copy, whatever TryOffload returned. *)
StartCopy ==
    /\ Doing({"copy"})
    /\ copy' = [x \in Sides |-> IF copy[x] = "off" THEN "read" ELSE copy[x]]
    /\ Proceed /\ UNCHANGED <<mode, maps, ends, sock, passed, buf, held, out, lost, faults>>

(* The server is closed: its maps can be changed no more, but the kernel
   keeps them for the sockets that are in them.                             *)
CloseSockmap ==
    /\ sm \in {"link", "raw"} /\ sm' = "closed"
    /\ UNCHANGED <<mode, sockhash, peer, offloaded, unpaired, todo, ends, streams, faults>>

OffloadNext ==
    \/ \E x \in Sides : HostSend(x) \/ HostEnd(x) \/ CopyRead(x) \/ CopyWrite(x) \/ CopyEnd(x)
    \/ Sniff \/ SniffEOF \/ Drain \/ Cookies \/ Put \/ PutFails \/ Erase \/ Activated
    \/ StartCopy \/ CloseSockmap

OffloadSpec == OffloadInit /\ [][OffloadNext]_offloadVars

-----------------------------------------------------------------------------
(* Every chunk is in one place, whoever moved it: kernel and copies together
   neither lose nor repeat one.  Only a connection whose second peer entry
   could not be added loses chunks of the server, between the two deletions
   of Add's error path, which leaves the first peer entry in the map.       *)
Places(x) == Unread(x) \o out[x] \o SetToSeq(lost[x])
ChunksKept ==
    /\ \A x \in Sides : Len(Places(x)) = sent[x] /\ ToSet(Places(x)) = 1..sent[x]
    /\ (lost["l"] \cup lost["r"] # {}) => unpaired /\ lost["l"] = {}

(* What was sniffed goes out before anything the kernel moves, although the
   socket of the client is still being read in user space.                 *)
SniffedFirst ==
    mode = "SNIFF" /\ out["l"] # <<>> => Head(out["l"]) = 1

(* Not so: a chunk that arrives when the entries are made overtakes an older
   one that a copy holds.  "On success the caller should [...] NOT do any
   further userspace copy", says TryOffload; both callers do.               *)
InOrder == \A x \in Sides : \A i, j \in DOMAIN out[x] : i < j => out[x][i] < out[x][j]
=============================================================================
