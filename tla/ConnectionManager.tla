-------------------------- MODULE ConnectionManager --------------------------
(***************************************************************************)
(* pkg/storage/postgres/connection.go: the primary, the slice of read      *)
(* replicas and its round-robin cursor.  Replica takes the read lock       *)
(* twice, once for the length and once for the element, and removals take  *)
(* the write lock, so each critical section is one step.                   *)
(***************************************************************************)
EXTENDS Naturals, Sequences, FiniteSets, SequencesExt

CONSTANTS
    Procs,        \* goroutines that call Replica
    Replicas,     \* replica connections
    Primary,      \* the primary connection
    NoConn,
    CounterMod    \* the cursor is a uint32: 2^32, scaled down

ASSUME ConnectionAssumption ==
    /\ IsFiniteSet(Replicas) /\ Primary \notin Replicas
    /\ NoConn \notin Replicas \cup {Primary}
    /\ CounterMod \in Nat \ {0}

VARIABLES
    replicas,   \* cm.replicas
    current,    \* cm.current
    closedConn, \* connections that were closed
    closePhase, \* step of Close
    closing,    \* replicas Close has detached and not closed yet
    call,       \* [Procs -> step of Replica]
    count,      \* [Procs -> replicaCount]
    index,      \* [Procs -> replicaIndex]
    conn,       \* [Procs -> the connection Replica returned]
    shrunk      \* history: [Procs -> replicas were removed since the count]

connVars == <<replicas, current, closedConn, closePhase, closing, call, count, index, conn, shrunk>>

ConnInit ==
    /\ replicas \in {SetToSeq(Replicas), <<>>}
    /\ current = 0 /\ closedConn = {} /\ closePhase = "open" /\ closing = {}
    /\ call = [p \in Procs |-> "idle"]
    /\ count = [p \in Procs |-> 0]
    /\ index = [p \in Procs |-> 0]
    /\ conn = [p \in Procs |-> NoConn]
    /\ shrunk = [p \in Procs |-> FALSE]

ReplicaBegin(p) ==
    /\ call[p] = "idle"
    /\ count' = [count EXCEPT ![p] = Len(replicas)]
    /\ shrunk' = [shrunk EXCEPT ![p] = FALSE]
    /\ IF Len(replicas) = 0
       THEN call' = [call EXCEPT ![p] = "got"] /\ conn' = [conn EXCEPT ![p] = Primary]
       ELSE call' = [call EXCEPT ![p] = "counted"] /\ UNCHANGED conn
    /\ UNCHANGED <<replicas, current, closedConn, closePhase, closing, index>>

\* Mutant: a one-based index.
ReplicaIndexOneBased(p) ==
    /\ call[p] = "counted"
    /\ current' = (current + 1) % CounterMod
    /\ index' = [index EXCEPT ![p] = (((current + 1) % CounterMod) % count[p]) + 1]
    /\ call' = [call EXCEPT ![p] = "indexed"]
    /\ UNCHANGED <<replicas, closedConn, closePhase, closing, count, conn, shrunk>>

\* atomic.AddUint32 and the remainder by the count read before.
ReplicaIndex(p) ==
    /\ call[p] = "counted"
    /\ current' = (current + 1) % CounterMod
    /\ index' = [index EXCEPT ![p] = ((current + 1) % CounterMod) % count[p]]
    /\ call' = [call EXCEPT ![p] = "indexed"]
    /\ UNCHANGED <<replicas, closedConn, closePhase, closing, count, conn, shrunk>>

\* cm.replicas[replicaIndex]: out of range panics, and the request with it.
ReplicaGet(p) ==
    /\ call[p] = "indexed"
    /\ IF index[p] < Len(replicas)
       THEN /\ call' = [call EXCEPT ![p] = "got"]
            /\ conn' = [conn EXCEPT ![p] = replicas[index[p] + 1]]
       ELSE call' = [call EXCEPT ![p] = "panicked"] /\ UNCHANGED conn
    /\ UNCHANGED <<replicas, current, closedConn, closePhase, closing, count, index, shrunk>>

Shrunk == shrunk' = [p \in Procs |-> call[p] # "idle"]

\* RemoveUnhealthyReplicas, from the health check goroutine: the replicas that
\* do not answer a ping are closed and dropped, in one critical section.
RemoveUnhealthyReplicas ==
    /\ \E sick \in SUBSET Range(replicas) \ {{}} :
         /\ replicas' = SelectSeq(replicas, LAMBDA r : r \notin sick)
         /\ closedConn' = closedConn \cup sick
    /\ Shrunk
    /\ UNCHANGED <<current, closePhase, closing, call, count, index, conn>>

\* AddReplica: opened and pinged outside the lock, appended under it.
AddReplica ==
    /\ \E r \in Replicas \ (Range(replicas) \cup closedConn \cup closing) :
         replicas' = Append(replicas, r)
    /\ UNCHANGED <<current, closedConn, closePhase, closing, call, count, index, conn, shrunk>>

\* Close: the primary, then the slice is detached under the lock, then each
\* replica is closed.
ClosePrimary ==
    /\ closePhase = "open" /\ closePhase' = "primary"
    /\ closedConn' = closedConn \cup {Primary}
    /\ UNCHANGED <<replicas, current, closing, call, count, index, conn, shrunk>>

CloseDetach ==
    /\ closePhase = "primary" /\ closePhase' = "detached"
    /\ closing' = Range(replicas) /\ replicas' = <<>>
    /\ Shrunk
    /\ UNCHANGED <<current, closedConn, call, count, index, conn>>

CloseReplica ==
    /\ \E r \in closing : closing' = closing \ {r} /\ closedConn' = closedConn \cup {r}
    /\ UNCHANGED <<replicas, current, closePhase, call, count, index, conn, shrunk>>

\* The caller is done with the connection.
ReplicaEnd(p) ==
    /\ call[p] \in {"got", "panicked"}
    /\ call' = [call EXCEPT ![p] = "idle"]
    /\ count' = [count EXCEPT ![p] = 0]
    /\ index' = [index EXCEPT ![p] = 0]
    /\ conn' = [conn EXCEPT ![p] = NoConn]
    /\ shrunk' = [shrunk EXCEPT ![p] = FALSE]
    /\ UNCHANGED <<replicas, current, closedConn, closePhase, closing>>

Maintenance == RemoveUnhealthyReplicas \/ AddReplica \/ ClosePrimary \/ CloseDetach \/ CloseReplica

\* Replica panics only when the slice shrank between its two critical
\* sections: the round-robin index itself is always within the count.
PanicNeedsRemoval ==
    \A p \in Procs : call[p] = "panicked" => shrunk[p]
=============================================================================
