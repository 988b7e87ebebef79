------------------------ MODULE AsyncMutexRefinement ------------------------
(***************************************************************************)
(* The queueing mutex of AsyncMutex implements the lock of Lock.           *)
(***************************************************************************)
EXTENDS AsyncMutex

\* The owner of the mutex is the holder Lock speaks of; a caller whose promise
\* is still queued is a waiting one.
LockWaiting == {c \in Callers : stage[c] = "queued"}

Abstract == INSTANCE Lock WITH holders <- Owners, waiting <- LockWaiting

\* The queueing mutex does nothing the abstract lock may not do: it never has two
\* holders and is never free while a caller waits.
ImplementsLock == Abstract!Spec
=============================================================================
