------------------------------ MODULE MCCimax ------------------------------
(* Two clients; the CAM of slot B comes and goes.                          *)
EXTENDS Cimax, TLC

CONSTANT MaxCalls,  \* calls of the clients, initialisations and moves of the CAM, together
         MaxFaults  \* transfers that fail and answers that are late, together

VARIABLES calls, faults   \* how many there have been

MCCalls ==
  { [op |-> "WriteRegister", at |-> "P2S", val |-> {"on"}],
    [op |-> "ReadRegister", at |-> "P2S", val |-> {}],
    [op |-> "ResetPatch", at |-> "none", val |-> {}],
    [op |-> "PassThrough", at |-> "B", val |-> {0}],
    Cam("CAMReset", "B", {}), Cam("GetCIS", "B", {}), Cam("WriteCor", "B", {}),
    Cam("ReadStatus", "B", {}), Cam("Negotiate", "B", {}), Cam("ReadLPDU", "B", {}),
    Cam("WriteLPDU", "B", {256}), Cam("WriteLPDU", "B", {512}) }

(* Payloads that are a whole number of pieces, and a query after them.     *)
MCWholePieces == { Cam("WriteLPDU", "B", {512}), Cam("ReadStatus", "B", {}) }

MCSymmetry == Permutations(Clients)

MCInit == Init /\ calls = 0 /\ faults = 0

Counted ==
  \/ StartInit \/ Client
  \/ \E slot \in Slots : Plug(slot) \/ DataReady(slot)

Faulty(t) == (SendFails(t) /\ drv.spi) \/ (NoResponse(t) /\ chip.out # <<>>)

MCNext ==
  /\ ~crashed
  /\ \/ Counted /\ calls < MaxCalls /\ calls' = calls + 1 /\ UNCHANGED faults
     \/ \E t \in Threads : Faulty(t) /\ faults < MaxFaults /\ faults' = faults + 1 /\ UNCHANGED calls
     \/ /\ \/ \E t \in Threads :
                 \/ Send(t) \/ Receive(t) \/ Finish(t) \/ HandleEvent(t) \/ Crash(t)
                 \/ SendFails(t) /\ ~drv.spi
                 \/ NoResponse(t) /\ chip.out = <<>>
           \/ Tell \/ LeaveThread \/ Power
           \/ BootStatus \/ FwEnds \/ CfgEnds \/ CreateThread \/ SetCallbacks
           \/ InitFails \/ CIMAX_Term \/ TermEnds
        /\ UNCHANGED <<calls, faults>>

MCSpec == MCInit /\ [][MCNext]_<<vars, calls, faults>>
=============================================================================
