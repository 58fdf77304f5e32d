---------------------------- MODULE SocketBuffer ----------------------------
(***************************************************************************)
(* SocketBuffer (src/src/core/Buffer.cpp): messages pushed at one end of a *)
(* chain of nodes, bytes read at the other, and a pool the nodes come from *)
(* and go back to.                                                         *)
(*                                                                         *)
(* A byte is its place in all that was ever pushed, so a node's memory is  *)
(* known by its first byte and its size.  Nodes are alike: of the pool,    *)
(* only the number of free ones matters.  One turn of a copying loop is    *)
(* one step.  A pool that asks for no new nodes and takes the first of     *)
(* them leaves the buffer undefined (broken): nothing is done with it then.*)
(* SocketBufferFree finds null pointers only, and changes nothing.         *)
(***************************************************************************)
EXTENDS Integers, Sequences

CONSTANTS Size,      \* sizes pushed and asked for
          MaxBytes   \* bound on the bytes pushed

ASSUME SocketBufferAssumption ==
  /\ Size \subseteq Nat \ {0}
  /\ MaxBytes \in Nat

VARIABLES
  size, offset, chain,  \* of the SocketBuffer; tail is the last of the chain
  len, free,            \* pool->len, and the nodes from pool->head on
  pc,                   \* "idle", or in the loop of "spec" or "all"
  want, out,            \* size and msg inside a read
  pushed, given,        \* bytes pushed so far; those reads have returned
  broken

poolVars == <<len, free, broken>>
vars == <<size, offset, chain, pc, want, out, pushed, given, poolVars>>

Init ==
  /\ size = 0 /\ offset = 0 /\ chain = <<>>
  /\ len = 0 /\ free = 0
  /\ pc = "idle" /\ want = 0 /\ out = <<>>
  /\ pushed = 0 /\ given = <<>>
  /\ broken = FALSE

-----------------------------------------------------------------------------
(* BufferPushData.                                                         *)

LARGE_PAGE_NODE == 12

\* The number of nodes NewBufferNode is asked for.
NewNodes ==
  8 - (IF len + 1 <= LARGE_PAGE_NODE - 3 THEN len + 1 ELSE LARGE_PAGE_NODE - 3)

\* NewBufferNode: so many nodes, the first of which is taken at once.
NewBufferNode(nodes) ==
  /\ free' = nodes - 1
  /\ len' = nodes

\* The message is copied into a node behind the others.
Enqueue(n) ==
  /\ chain' = Append(chain, [first |-> pushed + 1, size |-> n])
  /\ size' = size + n
  /\ pushed' = pushed + n
  /\ UNCHANGED <<offset, pc, want, out, given, broken>>

Push(n) ==
  /\ pc = "idle" /\ ~broken
  /\ pushed + n <= MaxBytes
  /\ \/ free > 0 /\ free' = free - 1 /\ UNCHANGED len /\ Enqueue(n)
     \/ /\ free = 0 /\ NewNodes > 0
        /\ NewBufferNode(NewNodes)
        /\ Enqueue(n)
     \/ /\ free = 0 /\ NewNodes = 0
        /\ broken' = TRUE
        /\ UNCHANGED <<size, offset, chain, len, free, pc, want, out, pushed,
                       given>>

-----------------------------------------------------------------------------
(* BufferReadSpec and BufferReadAll.                                       *)

\* What is left of the first node.
curLen == Head(chain).size - offset

\* memcpy of n bytes from the first node on.
Copied(n) == out \o [i \in 1..n |-> Head(chain).first + offset + (i - 1)]

\* Mutant of Release: offset is not reset.
ReleaseKeepingOffset ==
  /\ offset' = offset
  /\ chain' = Tail(chain)
  /\ free' = free + 1

\* Mutant of Release: the node does not go back to the pool.
ReleaseLeaking ==
  /\ offset' = 0
  /\ chain' = Tail(chain)
  /\ free' = free

\* BufferNodeRelease.
Release ==
  /\ offset' = 0
  /\ chain' = Tail(chain)
  /\ free' = free + 1

\* The message read is returned.
Return(msg) ==
  /\ given' = given \o msg
  /\ pc' = "idle" /\ want' = 0 /\ out' = <<>>

\* BufferReadSpec, up to its loop.
ReadSpec(n) ==
  /\ pc = "idle" /\ ~broken
  /\ size >= n
  /\ size' = size - n
  /\ pc' = "spec" /\ want' = n
  /\ UNCHANGED <<offset, chain, out, pushed, given, poolVars>>

\* The first node has all that is still wanted.
CopyLast ==
  /\ pc = "spec"
  /\ curLen >= want
  /\ Return(Copied(want))
  /\ IF curLen = want THEN Release
     ELSE offset' = offset + want /\ UNCHANGED <<chain, free>>
  /\ UNCHANGED <<size, pushed, len, broken>>

\* It has not: on with the next node, if there is one.
CopyNode ==
  /\ pc = "spec"
  /\ curLen < want
  /\ Release
  /\ IF Len(chain) = 1 THEN Return(Copied(curLen))
     ELSE /\ out' = Copied(curLen)
          /\ want' = want - curLen
          /\ UNCHANGED <<pc, given>>
  /\ UNCHANGED <<size, pushed, len, broken>>

\* BufferReadAll, called or reached from a BufferReadSpec that wants more than
\* there is.
ReadAll ==
  /\ pc = "idle" /\ ~broken
  /\ size > 0
  /\ pc' = "all"
  /\ UNCHANGED <<size, offset, chain, want, out, pushed, given, poolVars>>

CopyAll ==
  /\ pc = "all"
  /\ chain # <<>>
  /\ out' = Copied(curLen)
  /\ Release
  /\ UNCHANGED <<size, pc, want, pushed, given, len, broken>>

EndAll ==
  /\ pc = "all"
  /\ chain = <<>>
  /\ Return(out)
  /\ size' = 0
  /\ UNCHANGED <<offset, chain, pushed, poolVars>>

Next ==
  \/ \E n \in Size : Push(n) \/ ReadSpec(n)
  \/ ReadAll \/ CopyLast \/ CopyNode \/ CopyAll \/ EndAll

Spec == Init /\ [][Next]_vars

-----------------------------------------------------------------------------
(* Properties.                                                             *)

\* The shape of the state.
TypeOK ==
  /\ size \in Nat /\ offset \in Nat
  /\ chain \in Seq([first : Nat, size : Nat])
  /\ len \in Nat /\ free \in Nat
  /\ pc \in {"idle", "spec", "all"}
  /\ want \in Nat /\ out \in Seq(Nat)
  /\ pushed \in Nat /\ given \in Seq(Nat)
  /\ broken \in BOOLEAN

\* Whatever the sizes of the messages and of the reads, what is read is what
\* was pushed, byte for byte, none left out or read twice, and between calls
\* size is the number of bytes still to be read: every read gave as many as it
\* took off size (Buffer.cpp:66, 97-160).
BytesInOrder ==
  /\ \A i \in DOMAIN given : given[i] = i
  /\ Len(given) <= pushed
  /\ pc = "idle" => size = pushed - Len(given)

\* The buffer is only broken by a push that finds seven messages unread: no
\* node of the pool gets lost on the way (Buffer.cpp:41-54, 78-82).
BrokenOnlyWhenFull == broken => Len(chain) = 7
=============================================================================
