---------------------------- MODULE EduIrqProofs ----------------------------
(***************************************************************************)
(* Safety of the mediated interrupt path, for every line, every token,     *)
(* every set of failing kernel invocations and every driver, draining   *)
(* or not.  The inductive invariant is IInv: TypeOK, the state of the      *)
(* registration during and between control calls (RegistrationInv), and    *)
(* who still has to deal with the interrupt that masked the line           *)
(* (DeliveryInv).                                                          *)
(***************************************************************************)
EXTENDS EduIrq, TLAPS

\* A request is pending only in the call that sent it, in that call's words;
\* an accepted answer is one that changed the registration.
RegistrationInv ==
  /\ reply # "none" => call \in {"request", "free", "forge"} /\ request = NoMessage
  /\ request # NoMessage =>
       \/ call = "request" /\ request.kind = "register"
       \/ call = "free" /\ request.kind = "unregister"
       \/ call = "forge" /\ request.kind = "register" /\ request.token # Token
  /\ call \notin {"request", "free"} => (handler <=> registered_irq = Irq)
  /\ call = "wait" => handler
  /\ call = "request" => ~handler /\ ((reply = "accepted") <=> (registered_irq = Irq))
  /\ call = "free" => handler /\ ((reply = "accepted") <=> (registered_irq # Irq))

\* A delivered interrupt is in the hands of the driver: its notification is
\* pending, or the thread is between waking and sending the completion.
Serving ==
  \/ drvNtfn
  \/ call \in {"read", "ack"}
  \/ call = "complete" /\ completion = "good"

\* The hardware signal is irqd's alone: no control badge has been merged.
Signalled == irqd = "hardware" \/ (ntfn.active /\ ntfn.badges = {})

DeliveryInv ==
  /\ Serving => masked /\ irqd # "ack"
  /\ drvNtfn => /\ call \notin {"read", "ack"}
                /\ call = "complete" => completion = "malformed"
                /\ ~handled
  /\ call \in {"read", "ack"} => ~handled /\ registered_irq = Irq
  /\ Signalled => masked /\ ~Serving /\ ~handled
  /\ irqd \in {"hardware", "complete", "ack"} =>
       masked /\ ~(ntfn.active /\ ntfn.badges = {})
  /\ irqd = "ack" => handled /\ registered_irq = Irq
  /\ call = "complete" /\ completion = "good" => handled /\ registered_irq = Irq

IInv == TypeOK /\ RegistrationInv /\ DeliveryInv

(* The initial states satisfy the invariant: nothing is registered, pending *)
(* or masked when irqd enters its loop.                                    *)
LEMMA InitIInv == Init => IInv
<1> SUFFICES ASSUME Init PROVE IInv
  OBVIOUS
<1>1. TypeOK
  BY IrqAssumption, TokenAssumption
  DEF Init, TypeOK, Quiet, NoMessage, Notification, Calls, IrqdStates
<1>2. RegistrationInv
  BY IrqAssumption DEF Init, RegistrationInv, NoMessage
<1>3. DeliveryInv
  BY DEF Init, DeliveryInv, Serving, Signalled, Quiet
<1>4. QED
  BY <1>1, <1>2, <1>3 DEF IInv

(* IRQHandler_Ack leaves a mask bit behind, whether it succeeds or not.     *)
LEMMA AckKernelType == masked \in BOOLEAN /\ AckKernel => masked' \in BOOLEAN
<1>1. CASE "ack" \in Failing
  BY <1>1 DEF AckKernel
<1>2. CASE "ack" \notin Failing
  BY <1>2 DEF AckKernel
<1>3. QED
  BY <1>1, <1>2

(* Every step preserves the types.                                         *)
LEMMA TypeStep == TypeOK /\ [Next]_vars => TypeOK'
<1> SUFFICES ASSUME TypeOK, [Next]_vars PROVE TypeOK'
  OBVIOUS
<1> USE IrqAssumption, TokenAssumption
    DEF TypeOK, irqdVars, controlVars, kapiVars, driverVars, drvNtfnVars,
        deviceVars, kernelVars
<1>1. CASE BindToken
  BY <1>1 DEF BindToken
<1>2. CASE ClearToken
  BY <1>2 DEF ClearToken
<1>3. CASE RequestIrq
  BY <1>3 DEF RequestIrq, MayCall, RequestIrqGuard, Control, Message, Notification, Badges, Calls
<1>4. CASE RequestIrqInvalid
  BY <1>4 DEF RequestIrqInvalid, MayCall, RequestIrqGuard
<1>5. CASE FreeIrq
  BY <1>5 DEF FreeIrq, MayCall, FreeIrqGuard, Control, Message, Notification, Badges, Calls
<1>6. CASE FreeIrqInvalid
  BY <1>6 DEF FreeIrqInvalid, MayCall, FreeIrqGuard
<1>7. CASE ForgedRegister
  BY <1>7 DEF ForgedRegister, MayCall, Control, Message, Notification, Badges, Calls
<1>8. CASE Dispatch
  BY <1>8 DEF Dispatch, Calls
<1>9. CASE DispatchInvalid
  BY <1>9 DEF DispatchInvalid
<1>10. CASE MalformedCompletion
  BY <1>10 DEF MalformedCompletion, Calls
<1>11. CASE RaiseIrq
  BY <1>11 DEF RaiseIrq, MayCall, StatusBits
<1>12. CASE StartDma
  BY <1>12 DEF StartDma, MayCall
<1>13. CASE RequestIrqReturns
  BY <1>13 DEF RequestIrqReturns, Calls
<1>14. CASE FreeIrqReturns
  BY <1>14 DEF FreeIrqReturns, Calls
<1>15. CASE ForgedRegisterReturns
  BY <1>15 DEF ForgedRegisterReturns, Calls
<1>16. CASE DispatchWakes
  <2>1. drvNtfn' \in BOOLEAN /\ call' \in Calls
    BY <1>16 DEF DispatchWakes, Calls
  <2>2. UNCHANGED <<drains, registered_irq, irqd, todo, ntfn, request, reply, ret, handler, token,
                    completion, last_status, drvCap, status, dmaBusy, masked, handled>>
    BY <1>16 DEF DispatchWakes
  <2>3. QED
    BY <2>1, <2>2
<1>17. CASE DispatchFaults
  BY <1>17 DEF DispatchFaults, Calls
<1>18. CASE HandlerReadsStatus
  BY <1>18 DEF HandlerReadsStatus, Calls
<1>19. CASE HandlerAcksDevice
  BY <1>19 DEF HandlerAcksDevice, Calls
<1>20. CASE IrqdWakes
  BY <1>20 DEF IrqdWakes, Quiet, Notification, IrqdStates
<1>21. CASE HandleRegister
  BY <1>21 DEF HandleRegister, RegisterAcceptable, ReplyControl, Message, IrqdStates
<1>22. CASE HandleUnregisterFails
  BY <1>22 DEF HandleUnregisterFails, UnregisterAcceptable, ReplyControl, IrqdStates
<1>23. CASE HandleUnregister
  BY <1>23 DEF HandleUnregister, UnregisterAcceptable, ReplyControl, IrqdStates
<1>24. CASE HardwareUnregistered
  BY <1>24, AckKernelType DEF HardwareUnregistered, IrqdStates
<1>25. CASE HardwareDelivers
  BY <1>25 DEF HardwareDelivers, IrqdStates
<1>26. CASE CompletionArrives
  BY <1>26 DEF CompletionArrives, IrqdStates, Calls
<1>27. CASE HardwareAck
  BY <1>27, AckKernelType DEF HardwareAck, IrqdStates
<1>28. CASE DmaCompletes
  <2>1. dmaBusy' \in BOOLEAN /\ status' \in SUBSET StatusBits
    BY <1>28 DEF DmaCompletes, StatusBits
  <2>2. UNCHANGED <<drains, registered_irq, irqd, todo, ntfn, request, reply, call, ret, handler,
                    token, completion, last_status, drvNtfn, drvCap, masked, handled>>
    BY <1>28 DEF DmaCompletes
  <2>3. QED
    BY <2>1, <2>2
<1>29. CASE LineFires
  <2>1. masked' \in BOOLEAN /\ handled' \in BOOLEAN /\ ntfn' \in Notification
    BY <1>29 DEF LineFires, Notification
  <2>2. UNCHANGED <<drains, registered_irq, irqd, todo, request, reply, call, ret, handler, token,
                    completion, last_status, drvNtfn, drvCap, status, dmaBusy>>
    BY <1>29 DEF LineFires
  <2>3. QED
    BY <2>1, <2>2
<1>30. CASE UNCHANGED vars
  BY <1>30 DEF vars
<1>31. QED
  BY <1>1, <1>2, <1>3, <1>4, <1>5, <1>6, <1>7, <1>8, <1>9, <1>10, <1>11,
     <1>12, <1>13, <1>14, <1>15, <1>16, <1>17, <1>18, <1>19, <1>20, <1>21,
     <1>22, <1>23, <1>24, <1>25, <1>26, <1>27, <1>28, <1>29, <1>30
  DEF Next, DriverCalls, DriverRuns, IrqdRuns, Hardware

(* Every step preserves the relation between the registration and the call *)
(* that changes it (irqd.c:45-93, kapi_core.c:248-303).                    *)
LEMMA RegistrationStep ==
  TypeOK /\ RegistrationInv /\ [Next]_vars => RegistrationInv'
<1> SUFFICES ASSUME TypeOK, RegistrationInv, [Next]_vars PROVE RegistrationInv'
  OBVIOUS
<1> USE IrqAssumption, TokenAssumption
    DEF TypeOK, RegistrationInv, irqdVars, controlVars, kapiVars, driverVars,
        drvNtfnVars, deviceVars, kernelVars, Message, NoMessage, Badges, Calls
<1>1. CASE BindToken
  BY <1>1 DEF BindToken
<1>2. CASE ClearToken
  BY <1>2 DEF ClearToken
<1>3. CASE RequestIrq
  BY <1>3 DEF RequestIrq, MayCall, RequestIrqGuard, Control
<1>4. CASE RequestIrqInvalid
  BY <1>4 DEF RequestIrqInvalid, MayCall, RequestIrqGuard
<1>5. CASE FreeIrq
  BY <1>5 DEF FreeIrq, MayCall, FreeIrqGuard, Control
<1>6. CASE FreeIrqInvalid
  BY <1>6 DEF FreeIrqInvalid, MayCall, FreeIrqGuard
<1>7. CASE ForgedRegister
  BY <1>7 DEF ForgedRegister, MayCall, Control
<1>8. CASE Dispatch
  BY <1>8 DEF Dispatch
<1>9. CASE DispatchInvalid
  BY <1>9 DEF DispatchInvalid
<1>10. CASE MalformedCompletion
  BY <1>10 DEF MalformedCompletion
<1>11. CASE RaiseIrq
  BY <1>11 DEF RaiseIrq, MayCall
<1>12. CASE StartDma
  BY <1>12 DEF StartDma, MayCall
<1>13. CASE RequestIrqReturns
  BY <1>13 DEF RequestIrqReturns
<1>14. CASE FreeIrqReturns
  BY <1>14 DEF FreeIrqReturns
<1>15. CASE ForgedRegisterReturns
  BY <1>15 DEF ForgedRegisterReturns
<1>16. CASE DispatchWakes
  BY <1>16 DEF DispatchWakes
<1>17. CASE DispatchFaults
  BY <1>17 DEF DispatchFaults
<1>18. CASE HandlerReadsStatus
  BY <1>18 DEF HandlerReadsStatus
<1>19. CASE HandlerAcksDevice
  BY <1>19 DEF HandlerAcksDevice
<1>20. CASE IrqdWakes
  BY <1>20 DEF IrqdWakes, Quiet
<1>21. CASE HandleRegister
  BY <1>21 DEF HandleRegister, RegisterAcceptable, ReplyControl
<1>22. CASE HandleUnregisterFails
  BY <1>22 DEF HandleUnregisterFails, UnregisterAcceptable, ReplyControl
<1>23. CASE HandleUnregister
  BY <1>23 DEF HandleUnregister, UnregisterAcceptable, ReplyControl
<1>24. CASE HardwareUnregistered
  BY <1>24 DEF HardwareUnregistered, AckKernel
<1>25. CASE HardwareDelivers
  BY <1>25 DEF HardwareDelivers
<1>26. CASE CompletionArrives
  BY <1>26 DEF CompletionArrives
<1>27. CASE HardwareAck
  BY <1>27 DEF HardwareAck, AckKernel
<1>28. CASE DmaCompletes
  BY <1>28 DEF DmaCompletes
<1>29. CASE LineFires
  BY <1>29 DEF LineFires
<1>30. CASE UNCHANGED vars
  BY <1>30 DEF vars
<1>31. QED
  BY <1>1, <1>2, <1>3, <1>4, <1>5, <1>6, <1>7, <1>8, <1>9, <1>10, <1>11,
     <1>12, <1>13, <1>14, <1>15, <1>16, <1>17, <1>18, <1>19, <1>20, <1>21,
     <1>22, <1>23, <1>24, <1>25, <1>26, <1>27, <1>28, <1>29, <1>30
  DEF Next, DriverCalls, DriverRuns, IrqdRuns, Hardware

(* Every step preserves the account of the interrupt that masked the line  *)
(* (irqd.c:95-116,127-142, kapi_core.c:328-344, edu_kapi_probe.c:86-93).   *)
LEMMA DeliveryStep == IInv /\ [Next]_vars => DeliveryInv'
<1> SUFFICES ASSUME TypeOK, RegistrationInv, DeliveryInv, [Next]_vars
             PROVE  DeliveryInv'
  BY DEF IInv
<1> USE IrqAssumption, TokenAssumption
    DEF TypeOK, RegistrationInv, DeliveryInv, Serving, Signalled, irqdVars,
        controlVars, kapiVars, driverVars, drvNtfnVars, deviceVars, kernelVars,
        Message, NoMessage, Notification, Badges, Calls, IrqdStates
<1>1. CASE BindToken
  BY <1>1 DEF BindToken
<1>2. CASE ClearToken
  BY <1>2 DEF ClearToken
<1>3. CASE RequestIrq
  BY <1>3 DEF RequestIrq, MayCall, RequestIrqGuard, Control
<1>4. CASE RequestIrqInvalid
  BY <1>4 DEF RequestIrqInvalid, MayCall, RequestIrqGuard
<1>5. CASE FreeIrq
  BY <1>5 DEF FreeIrq, MayCall, FreeIrqGuard, Control
<1>6. CASE FreeIrqInvalid
  BY <1>6 DEF FreeIrqInvalid, MayCall, FreeIrqGuard
<1>7. CASE ForgedRegister
  BY <1>7 DEF ForgedRegister, MayCall, Control
<1>8. CASE Dispatch
  BY <1>8 DEF Dispatch
<1>9. CASE DispatchInvalid
  BY <1>9 DEF DispatchInvalid
<1>10. CASE MalformedCompletion
  BY <1>10 DEF MalformedCompletion
<1>11. CASE RaiseIrq
  BY <1>11 DEF RaiseIrq, MayCall
<1>12. CASE StartDma
  BY <1>12 DEF StartDma, MayCall
<1>13. CASE RequestIrqReturns
  BY <1>13 DEF RequestIrqReturns
<1>14. CASE FreeIrqReturns
  BY <1>14 DEF FreeIrqReturns
<1>15. CASE ForgedRegisterReturns
  BY <1>15 DEF ForgedRegisterReturns
<1>16. CASE DispatchWakes
  BY <1>16 DEF DispatchWakes
<1>17. CASE DispatchFaults
  BY <1>17 DEF DispatchFaults
<1>18. CASE HandlerReadsStatus
  BY <1>18 DEF HandlerReadsStatus
<1>19. CASE HandlerAcksDevice
  BY <1>19 DEF HandlerAcksDevice
<1>20. CASE IrqdWakes
  BY <1>20 DEF IrqdWakes, Quiet
<1>21. CASE HandleRegister
  BY <1>21 DEF HandleRegister, RegisterAcceptable, ReplyControl
<1>22. CASE HandleUnregisterFails
  BY <1>22 DEF HandleUnregisterFails, UnregisterAcceptable, ReplyControl
<1>23. CASE HandleUnregister
  BY <1>23 DEF HandleUnregister, UnregisterAcceptable, ReplyControl
<1>24. CASE HardwareUnregistered
  BY <1>24 DEF HardwareUnregistered, AckKernel
<1>25. CASE HardwareDelivers
  BY <1>25 DEF HardwareDelivers
<1>26. CASE CompletionArrives
  BY <1>26 DEF CompletionArrives
<1>27. CASE HardwareAck
  BY <1>27 DEF HardwareAck, AckKernel
<1>28. CASE DmaCompletes
  BY <1>28 DEF DmaCompletes
<1>29. CASE LineFires
  BY <1>29 DEF LineFires
<1>30. CASE UNCHANGED vars
  BY <1>30 DEF vars
<1>31. QED
  BY <1>1, <1>2, <1>3, <1>4, <1>5, <1>6, <1>7, <1>8, <1>9, <1>10, <1>11,
     <1>12, <1>13, <1>14, <1>15, <1>16, <1>17, <1>18, <1>19, <1>20, <1>21,
     <1>22, <1>23, <1>24, <1>25, <1>26, <1>27, <1>28, <1>29, <1>30
  DEF Next, DriverCalls, DriverRuns, IrqdRuns, Hardware

(* The conjunction of the three parts is inductive.                        *)
LEMMA IInvStep == IInv /\ [Next]_vars => IInv'
BY TypeStep, RegistrationStep, DeliveryStep DEF IInv

(* Every reachable state satisfies the invariant.                          *)
THEOREM Invariance == Spec => []IInv
BY InitIInv, IInvStep, PTL DEF Spec

(* Every variable keeps its type, whatever the driver calls.               *)
THEOREM TypeCorrect == Spec => []TypeOK
<1>1. IInv => TypeOK
  BY DEF IInv
<1>2. QED
  BY Invariance, <1>1, PTL

(* The driver's handler and irqd's registered line agree between control   *)
(* calls, and an answer on its way tells the driver the truth.             *)
THEOREM RegistrationCorrect == Spec => []RegistrationAgrees
<1>1. IInv => RegistrationAgrees
  BY DEF IInv, TypeOK, RegistrationInv, RegistrationAgrees
<1>2. QED
  BY Invariance, <1>1, PTL

(* Every step of the path is a step of the abstract line or none: the line *)
(* is reopened only after the device was acknowledged, or unowned.         *)
LEMMA LineStep == IInv /\ [Next]_vars => [Line!Next]_Line!vars
<1> SUFFICES ASSUME TypeOK, RegistrationInv, DeliveryInv, [Next]_vars
             PROVE  [Line!Next]_Line!vars
  BY DEF IInv
<1> USE IrqAssumption
    DEF TypeOK, irqdVars, kernelVars, Line!Next, Line!vars
<1>1. CASE BindToken
  BY <1>1 DEF BindToken
<1>2. CASE ClearToken
  BY <1>2 DEF ClearToken
<1>3. CASE RequestIrq
  BY <1>3 DEF RequestIrq, MayCall, RequestIrqGuard, Control
<1>4. CASE RequestIrqInvalid
  BY <1>4 DEF RequestIrqInvalid, MayCall, RequestIrqGuard
<1>5. CASE FreeIrq
  BY <1>5 DEF FreeIrq, MayCall, FreeIrqGuard, Control
<1>6. CASE FreeIrqInvalid
  BY <1>6 DEF FreeIrqInvalid, MayCall, FreeIrqGuard
<1>7. CASE ForgedRegister
  BY <1>7 DEF ForgedRegister, MayCall, Control
<1>8. CASE Dispatch
  BY <1>8 DEF Dispatch
<1>9. CASE DispatchInvalid
  BY <1>9 DEF DispatchInvalid
<1>10. CASE MalformedCompletion
  BY <1>10 DEF MalformedCompletion
<1>11. CASE RaiseIrq
  BY <1>11 DEF RaiseIrq, MayCall
<1>12. CASE StartDma
  BY <1>12 DEF StartDma, MayCall
<1>13. CASE RequestIrqReturns
  BY <1>13 DEF RequestIrqReturns
<1>14. CASE FreeIrqReturns
  BY <1>14 DEF FreeIrqReturns
<1>15. CASE ForgedRegisterReturns
  BY <1>15 DEF ForgedRegisterReturns
<1>16. CASE DispatchWakes
  BY <1>16 DEF DispatchWakes
<1>17. CASE DispatchFaults
  BY <1>17 DEF DispatchFaults
<1>18. CASE HandlerReadsStatus
  BY <1>18 DEF HandlerReadsStatus
<1>19. CASE HandlerAcksDevice
  BY <1>19 DEF HandlerAcksDevice, DeliveryInv, Serving, Line!Service
<1>20. CASE IrqdWakes
  BY <1>20 DEF IrqdWakes, Quiet
<1>21. CASE HandleRegister
  BY <1>21 DEF HandleRegister, RegisterAcceptable, ReplyControl, Line!Acquire
<1>22. CASE HandleUnregisterFails
  BY <1>22 DEF HandleUnregisterFails, UnregisterAcceptable, ReplyControl
<1>23. CASE HandleUnregister
  BY <1>23 DEF HandleUnregister, UnregisterAcceptable, ReplyControl, Line!Release
<1>24. CASE HardwareUnregistered
  BY <1>24 DEF HardwareUnregistered, AckKernel, DeliveryInv, Signalled, Line!Discard
<1>25. CASE HardwareDelivers
  BY <1>25 DEF HardwareDelivers
<1>26. CASE CompletionArrives
  BY <1>26 DEF CompletionArrives
<1>27. CASE HardwareAck
  BY <1>27 DEF HardwareAck, AckKernel, DeliveryInv, Line!Reopen
<1>28. CASE DmaCompletes
  BY <1>28 DEF DmaCompletes
<1>29. CASE LineFires
  BY <1>29 DEF LineFires, Line!Fire
<1>30. CASE UNCHANGED vars
  BY <1>30 DEF vars
<1>31. QED
  BY <1>1, <1>2, <1>3, <1>4, <1>5, <1>6, <1>7, <1>8, <1>9, <1>10, <1>11,
     <1>12, <1>13, <1>14, <1>15, <1>16, <1>17, <1>18, <1>19, <1>20, <1>21,
     <1>22, <1>23, <1>24, <1>25, <1>26, <1>27, <1>28, <1>29, <1>30
  DEF Next, DriverCalls, DriverRuns, IrqdRuns, Hardware

(* The interrupt path implements the abstract line, for every driver.      *)
THEOREM LineRefined == Spec => ImplementsLine
<1>1. Init => Line!Init
  BY DEF Init, Line!Init
<1>2. QED
  BY <1>1, LineStep, Invariance, PTL DEF Spec, ImplementsLine, Line!Spec

-----------------------------------------------------------------------------
\* One control call at a time: its badge is pending, or irqd is serving it.
ControlInv ==
  /\ todo \subseteq {request.kind} /\ ntfn.badges \subseteq {request.kind}
  /\ todo = {} \/ ntfn.badges = {}
  /\ (irqd = "control") <=> (todo # {})

\* A draining driver makes no control call while an interrupt is outstanding,
\* and one is while the hardware's signal is pending.
DrainInv ==
  drains =>
    /\ completion = "good"
    /\ Outstanding => call \notin {"request", "free", "forge"}
    /\ Signalled => status # {}
    /\ masked => \/ ntfn.active /\ ntfn.badges = {}
                 \/ irqd \in {"hardware", "complete", "ack"}

(* Every step of one control call at a time leads to such a state.         *)
LEMMA ControlStep == IInv /\ ControlInv /\ [Next]_vars => ControlInv'
<1> SUFFICES ASSUME TypeOK, RegistrationInv, ControlInv, [Next]_vars PROVE ControlInv'
  BY DEF IInv
<1> USE TokenAssumption
    DEF TypeOK, RegistrationInv, ControlInv, irqdVars, controlVars, kapiVars, driverVars,
        drvNtfnVars, deviceVars, kernelVars, Message, NoMessage, Notification, Badges, Calls,
        IrqdStates
<1>1. CASE BindToken
  BY <1>1 DEF BindToken
<1>2. CASE ClearToken
  BY <1>2 DEF ClearToken
<1>3. CASE RequestIrq
  BY <1>3 DEF RequestIrq, MayCall, RequestIrqGuard, Control
<1>4. CASE RequestIrqInvalid
  BY <1>4 DEF RequestIrqInvalid, MayCall, RequestIrqGuard
<1>5. CASE FreeIrq
  BY <1>5 DEF FreeIrq, MayCall, FreeIrqGuard, Control
<1>6. CASE FreeIrqInvalid
  BY <1>6 DEF FreeIrqInvalid, MayCall, FreeIrqGuard
<1>7. CASE ForgedRegister
  BY <1>7 DEF ForgedRegister, MayCall, Control
<1>8. CASE Dispatch
  BY <1>8 DEF Dispatch
<1>9. CASE DispatchInvalid
  BY <1>9 DEF DispatchInvalid
<1>10. CASE MalformedCompletion
  BY <1>10 DEF MalformedCompletion
<1>11. CASE RaiseIrq
  BY <1>11 DEF RaiseIrq, MayCall
<1>12. CASE StartDma
  BY <1>12 DEF StartDma, MayCall
<1>13. CASE RequestIrqReturns
  BY <1>13 DEF RequestIrqReturns
<1>14. CASE FreeIrqReturns
  BY <1>14 DEF FreeIrqReturns
<1>15. CASE ForgedRegisterReturns
  BY <1>15 DEF ForgedRegisterReturns
<1>16. CASE DispatchWakes
  BY <1>16 DEF DispatchWakes
<1>17. CASE DispatchFaults
  BY <1>17 DEF DispatchFaults
<1>18. CASE HandlerReadsStatus
  BY <1>18 DEF HandlerReadsStatus
<1>19. CASE HandlerAcksDevice
  BY <1>19 DEF HandlerAcksDevice
<1>20. CASE IrqdWakes
  BY <1>20 DEF IrqdWakes, Quiet
<1>21. CASE HandleRegister
  <2>1. irqd = "control" /\ todo \in SUBSET {"register", "unregister", "hardware"}
        /\ request.kind = "register" /\ "register" \in todo
    BY <1>21 DEF HandleRegister
  <2>2. todo = {"register"}
    <3>1. todo \subseteq {"register"}
      BY <2>1 DEF ControlInv
    <3>2. \A S : S \subseteq {"register"} /\ "register" \in S => S = {"register"}
      OBVIOUS
    <3>3. QED
      BY <2>1, <3>1, <3>2
  <2>3. todo' = {} /\ irqd' = "wait" /\ ntfn' = ntfn
    BY <1>21, <2>2 DEF HandleRegister, ReplyControl
  <2>4. QED
    BY <2>2, <2>3
<1>22. CASE HandleUnregisterFails
  BY <1>22 DEF HandleUnregisterFails, UnregisterAcceptable, ReplyControl
<1>23. CASE HandleUnregister
  BY <1>23 DEF HandleUnregister, UnregisterAcceptable, ReplyControl
<1>24. CASE HardwareUnregistered
  BY <1>24 DEF HardwareUnregistered, AckKernel
<1>25. CASE HardwareDelivers
  BY <1>25 DEF HardwareDelivers
<1>26. CASE CompletionArrives
  BY <1>26 DEF CompletionArrives
<1>27. CASE HardwareAck
  BY <1>27 DEF HardwareAck, AckKernel
<1>28. CASE DmaCompletes
  BY <1>28 DEF DmaCompletes
<1>29. CASE LineFires
  BY <1>29 DEF LineFires
<1>30. CASE UNCHANGED vars
  BY <1>30 DEF vars
<1>31. QED
  BY <1>1, <1>2, <1>3, <1>4, <1>5, <1>6, <1>7, <1>8, <1>9, <1>10, <1>11,
     <1>12, <1>13, <1>14, <1>15, <1>16, <1>17, <1>18, <1>19, <1>20, <1>21,
     <1>22, <1>23, <1>24, <1>25, <1>26, <1>27, <1>28, <1>29, <1>30
  DEF Next, DriverCalls, DriverRuns, IrqdRuns, Hardware


(* Where IRQHandler_Ack cannot fail, a draining driver's interrupt always  *)
(* has somebody who will open the line again.                              *)
LEMMA DrainStep ==
  "ack" \notin Failing /\ IInv /\ ControlInv /\ DrainInv /\ [Next]_vars => DrainInv'
<1> SUFFICES ASSUME "ack" \notin Failing, TypeOK, RegistrationInv, DeliveryInv, ControlInv,
                    DrainInv, [Next]_vars
             PROVE  DrainInv'
  BY DEF IInv
<1> USE DEF TypeOK, RegistrationInv, DeliveryInv, Serving, Signalled, ControlInv, DrainInv,
        Outstanding, irqdVars, controlVars, kapiVars, driverVars, drvNtfnVars, deviceVars,
        kernelVars, Message, NoMessage, Notification, Badges, Calls, IrqdStates
<1>1. CASE BindToken
  BY <1>1 DEF BindToken
<1>2. CASE ClearToken
  BY <1>2 DEF ClearToken
<1>3. CASE RequestIrq
  BY <1>3 DEF RequestIrq, MayCall, RequestIrqGuard, Control
<1>4. CASE RequestIrqInvalid
  BY <1>4 DEF RequestIrqInvalid, MayCall, RequestIrqGuard
<1>5. CASE FreeIrq
  BY <1>5 DEF FreeIrq, MayCall, FreeIrqGuard, Control
<1>6. CASE FreeIrqInvalid
  BY <1>6 DEF FreeIrqInvalid, MayCall, FreeIrqGuard
<1>7. CASE ForgedRegister
  BY <1>7 DEF ForgedRegister, MayCall, Control
<1>8. CASE Dispatch
  BY <1>8 DEF Dispatch
<1>9. CASE DispatchInvalid
  BY <1>9 DEF DispatchInvalid
<1>10. CASE MalformedCompletion
  BY <1>10 DEF MalformedCompletion
<1>11. CASE RaiseIrq
  BY <1>11 DEF RaiseIrq, MayCall
<1>12. CASE StartDma
  BY <1>12 DEF StartDma, MayCall
<1>13. CASE RequestIrqReturns
  BY <1>13 DEF RequestIrqReturns
<1>14. CASE FreeIrqReturns
  BY <1>14 DEF FreeIrqReturns
<1>15. CASE ForgedRegisterReturns
  BY <1>15 DEF ForgedRegisterReturns
<1>16. CASE DispatchWakes
  BY <1>16 DEF DispatchWakes
<1>17. CASE DispatchFaults
  BY <1>17 DEF DispatchFaults
<1>18. CASE HandlerReadsStatus
  BY <1>18 DEF HandlerReadsStatus
<1>19. CASE HandlerAcksDevice
  BY <1>19 DEF HandlerAcksDevice
<1>20. CASE IrqdWakes
  BY <1>20 DEF IrqdWakes, Quiet
<1>21. CASE HandleRegister
  BY <1>21 DEF HandleRegister, RegisterAcceptable, ReplyControl
<1>22. CASE HandleUnregisterFails
  BY <1>22 DEF HandleUnregisterFails, UnregisterAcceptable, ReplyControl
<1>23. CASE HandleUnregister
  BY <1>23 DEF HandleUnregister, UnregisterAcceptable, ReplyControl
<1>24. CASE HardwareUnregistered
  BY <1>24 DEF HardwareUnregistered, AckKernel
<1>25. CASE HardwareDelivers
  BY <1>25 DEF HardwareDelivers
<1>26. CASE CompletionArrives
  BY <1>26 DEF CompletionArrives
<1>27. CASE HardwareAck
  BY <1>27 DEF HardwareAck, AckKernel
<1>28. CASE DmaCompletes
  BY <1>28 DEF DmaCompletes
<1>29. CASE LineFires
  BY <1>29 DEF LineFires
<1>30. CASE UNCHANGED vars
  BY <1>30 DEF vars
<1>31. QED
  BY <1>1, <1>2, <1>3, <1>4, <1>5, <1>6, <1>7, <1>8, <1>9, <1>10, <1>11,
     <1>12, <1>13, <1>14, <1>15, <1>16, <1>17, <1>18, <1>19, <1>20, <1>21,
     <1>22, <1>23, <1>24, <1>25, <1>26, <1>27, <1>28, <1>29, <1>30
  DEF Next, DriverCalls, DriverRuns, IrqdRuns, Hardware


(* No interrupt of a draining driver is lost, whatever is merged on irqd's *)
(* notification (irqd.c:131-140), if the kernel's acknowledgement works.   *)
THEOREM InterruptsKept ==
  ASSUME "ack" \notin Failing PROVE Spec => []NoLostInterrupt
<1>1. Init => ControlInv /\ DrainInv
  BY DEF Init, ControlInv, DrainInv, Outstanding, Signalled, Quiet, NoMessage
<1>2. IInv /\ ControlInv /\ DrainInv /\ [Next]_vars => ControlInv' /\ DrainInv'
  BY ControlStep, DrainStep
<1>3. DrainInv => NoLostInterrupt
  BY DEF DrainInv, NoLostInterrupt
<1>4. QED
  BY Invariance, <1>1, <1>2, <1>3, PTL DEF Spec

=============================================================================
