--------------------------- MODULE BatchDispatch ---------------------------
(***************************************************************************)
(* sendBatch of src/src/email-manager.ts: dispatchBatchStrategy of         *)
(* src/src/batch/dispatcher.ts sends a batch through a queue of its own or *)
(* through the provider's batch call.  Each call goes one way.             *)
(***************************************************************************)
EXTENDS QueueBatch, NativeBatch

dispatchVars == <<batchVars, nativeVars>>

DispatchInit == BatchInit /\ NativeInit

DispatchNext ==
    \/ native = "idle" /\ BatchNext /\ UNCHANGED nativeVars
    \/ stage = "new" /\ NativeNext /\ UNCHANGED batchVars

DispatchSpec == DispatchInit /\ [][DispatchNext]_dispatchVars /\ BatchFairness
=============================================================================
