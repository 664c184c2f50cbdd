--------------------------- MODULE PciScanProofs ---------------------------
(***************************************************************************)
(* Proofs about PciScan, for every size of the buses, every capacity and   *)
(* every configuration space: first what holds at every step of a scan     *)
(* (the types, what is listed and in which order), then completeness, then *)
(* the machines whose bus numbers are assigned properly, where PciScan     *)
(* implements PciEnumeration.                                              *)
(***************************************************************************)
EXTENDS PciScan, SequenceTheorems, FiniteSetTheorems, TLAPS

USE PciSizes, PciCapacity

-----------------------------------------------------------------------------
(***************************************************************************)
(* The three things that happen to the stack of activation records.        *)
(***************************************************************************)

\* Continue changes the top record only.
LEMMA StackContinue ==
  ASSUME NEW s \in Seq(Frame), s # <<>>, NEW r \in Frame,
         NEW t, t = [s EXCEPT ![Len(s)] = r]
  PROVE  /\ t \in Seq(Frame) /\ t # <<>>
         /\ Len(t) = Len(s)
         /\ t[Len(t)] = r
         /\ \A k \in 1 .. Len(s) : k # Len(s) => t[k] = s[k]
<1>1. Len(s) \in 1 .. Len(s)
  BY EmptySeq
<1>2. /\ t \in Seq(Frame)
      /\ Len(t) = Len(s)
      /\ \A k \in 1 .. Len(s) : t[k] = IF k = Len(s) THEN r ELSE s[k]
  BY <1>1, ExceptSeq
<1> QED
  BY <1>1, <1>2, EmptySeq

\* A call appends a record that starts at device 0.
LEMMA StackCall ==
  ASSUME NEW s \in Seq(Frame), NEW b \in Bus,
         NEW t, t = Append(s, [bus |-> b, device |-> 0, function |-> 0])
  PROVE  /\ t \in Seq(Frame) /\ t # <<>>
         /\ Len(t) = Len(s) + 1
         /\ t[Len(t)] = [bus |-> b, device |-> 0, function |-> 0]
         /\ \A k \in 1 .. Len(s) : t[k] = s[k]
<1>1. [bus |-> b, device |-> 0, function |-> 0] \in Frame
  BY DEF Frame
<1> QED
  BY <1>1, AppendProperties

\* A return drops the top record.
LEMMA FrontOfSeq ==
  ASSUME NEW S, NEW s \in Seq(S), NEW n \in Nat, Len(s) = n + 1
  PROVE  /\ SubSeq(s, 1, n) \in Seq(S)
         /\ Len(SubSeq(s, 1, n)) = n
         /\ \A k \in 1 .. n : SubSeq(s, 1, n)[k] = s[k]
<1>1. \A k \in 1 .. n : s[k] \in S
  BY ElementOfSeq
<1> QED
  BY <1>1, SubSeqProperties

LEMMA StackReturn ==
  ASSUME NEW s \in Seq(Frame), s # <<>>,
         NEW t, t = SubSeq(s, 1, Len(s) - 1)
  PROVE  /\ t \in Seq(Frame)
         /\ Len(t) = Len(s) - 1
         /\ t = <<>> <=> Len(s) = 1
         /\ \A k \in 1 .. Len(s) - 1 : t[k] = s[k]
<1> DEFINE n == Len(s) - 1
<1>1. n \in Nat /\ Len(s) = n + 1
  BY EmptySeq
<1> HIDE DEF n
<1>2. t = SubSeq(s, 1, n)
  BY DEF n
<1>3. t \in Seq(Frame) /\ Len(t) = n /\ \A k \in 1 .. n : t[k] = s[k]
  BY <1>1, <1>2, FrontOfSeq
<1>4. Len(t) = 0 <=> t = <<>>
  BY <1>3, EmptySeq
<1> QED
  BY <1>1, <1>3, <1>4 DEF n

\* What the scanner reads of a configuration space is of the right kind.
LEMMA Reads ==
  ASSUME NEW c \in ConfigSpace,
         NEW b \in Bus, NEW d \in DeviceNo, NEW f \in FunctionNo
  PROVE  /\ ReadHeaderType(c, b, d, f) \in BOOLEAN
         /\ SecondaryBus(c, b, d, f) \in Bus
<1>1. c[<<b, d, f>>] \in Registers
  BY DEF ConfigSpace, Location
<1>2. ASSUME NEW r \in Registers PROVE r.multi \in BOOLEAN /\ r.secondary \in Bus
  <2>1. CASE r = Absent
    BY <2>1 DEF Absent, Bus
  <2>2. CASE r \in [present : {TRUE}, multi : BOOLEAN, bridge : BOOLEAN, secondary : Bus]
    BY <2>2
  <2> QED
    BY <2>1, <2>2 DEF Registers
<1> QED
  BY <1>1, <1>2 DEF ReadHeaderType, SecondaryBus

-----------------------------------------------------------------------------
(***************************************************************************)
(* Type correctness.  TypeOK is not inductive: that top exists, and that a *)
(* loop variable that is used as a device or function number is below its  *)
(* bound, depends on where pc is (Shape).  Every record below the top is   *)
(* inside a call of ScanFunction, so its loop variables are in range too.  *)
(***************************************************************************)
Running == pc \in {"ScanBus", "ScanFunction", "ScanDevice", "NextFunction", "Return"}

InRange(r) == r.device \in DeviceNo /\ r.function \in FunctionNo

Shape ==
  /\ Running <=> stack # <<>>
  /\ Running => host < NumFunction
  /\ \A k \in 1 .. Len(stack) - 1 : InRange(stack[k])
  /\ pc \in {"ScanFunction", "ScanDevice"} => InRange(top)
  /\ pc = "NextFunction" => top.device \in DeviceNo

TInv == TypeOK /\ Shape

LEMMA TopOfStack ==
  ASSUME TypeOK, stack # <<>>
  PROVE  top \in Frame /\ Len(stack) \in Nat \ {0}
  BY EmptySeq, ElementOfSeq DEF TypeOK, top

LEMMA CallEffect ==
  ASSUME TypeOK, NEW b \in Bus, CallScanBus(b)
  PROVE  /\ stack' \in Seq(Frame) /\ stack' # <<>>
         /\ Len(stack) \in Nat /\ Len(stack') = Len(stack) + 1
         /\ top' = [bus |-> b, device |-> 0, function |-> 0]
         /\ \A k \in 1 .. Len(stack) : stack'[k] = stack[k]
         /\ pc' = "ScanBus"
  BY StackCall, LenProperties DEF TypeOK, CallScanBus, top

LEMMA ContinueEffect ==
  ASSUME TypeOK, stack # <<>>,
         NEW d \in 0 .. NumDevice, NEW f \in 0 .. NumFunction, NEW at,
         Continue(d, f, at)
  PROVE  /\ stack' \in Seq(Frame) /\ stack' # <<>>
         /\ Len(stack) \in Nat \ {0} /\ Len(stack') = Len(stack)
         /\ top' = [bus |-> top.bus, device |-> d, function |-> f]
         /\ \A k \in 1 .. Len(stack) - 1 : stack'[k] = stack[k]
         /\ pc' = at
<1> DEFINE r == [bus |-> top.bus, device |-> d, function |-> f]
<1>1. r \in Frame
  BY TopOfStack DEF Frame
<1> HIDE DEF r
<1>2. stack' = [stack EXCEPT ![Len(stack)] = r] /\ pc' = at
  BY DEF Continue, r
<1>3. /\ stack' \in Seq(Frame) /\ stack' # <<>>
      /\ Len(stack') = Len(stack)
      /\ stack'[Len(stack')] = r
      /\ \A k \in 1 .. Len(stack) : k # Len(stack) => stack'[k] = stack[k]
  BY <1>1, <1>2, StackContinue DEF TypeOK
<1> QED
  BY <1>2, <1>3, TopOfStack DEF r, top

LEMMA ReturnEffect ==
  ASSUME TypeOK, stack # <<>>, Return
  PROVE  /\ stack' \in Seq(Frame)
         /\ Len(stack) \in Nat \ {0} /\ Len(stack') = Len(stack) - 1
         /\ stack' = <<>> <=> Len(stack) = 1
         /\ \A k \in 1 .. Len(stack) - 1 : stack'[k] = stack[k]
  BY StackReturn, TopOfStack DEF TypeOK, Return

LEMMA TInvInit == Init => TInv
<1> SUFFICES ASSUME Init PROVE TInv
  OBVIOUS
<1>1. TypeOK
  BY PciMachines DEF Init, TypeOK, ControlPoint, Error
<1>2. Shape
  BY DEF Init, Shape, Running
<1> QED
  BY <1>1, <1>2 DEF TInv

LEMMA TInvNext == TInv /\ [Next]_vars => TInv'
<1> SUFFICES ASSUME TypeOK, Shape, [Next]_vars PROVE TypeOK' /\ Shape'
  BY DEF TInv
<1>sub. /\ 0 \in Bus /\ 0 \in DeviceNo /\ 0 \in FunctionNo
        /\ FunctionNo \subseteq Bus
        /\ DeviceNo = {d \in 0 .. NumDevice : d < NumDevice}
        /\ FunctionNo = {f \in 0 .. NumFunction : f < NumFunction}
  BY DEF Bus, DeviceNo, FunctionNo
<1>1. CASE ScanAllBus
  <2>0. stack = <<>> /\ Len(<<>>) = 0 /\ <<>> \in Seq(Device)
    BY <1>1, EmptySeq DEF ScanAllBus, Shape, Running
  <2>1. CASE CallScanBus(0) /\ host' = 0
    <3>1. TypeOK'
      BY <1>1, <1>sub, <2>0, <2>1, CallEffect DEF ScanAllBus, TypeOK, ControlPoint
    <3>0. Len(stack') = 1 /\ stack' # <<>> /\ pc' = "ScanBus"
      BY <1>sub, <2>0, <2>1, CallEffect
    <3>2. Shape'
      BY <2>1, <3>0 DEF Shape, Running
    <3> QED BY <3>1, <3>2
  <2>2. CASE pc' = "ScanHosts" /\ host' = 1 /\ UNCHANGED stack
    <3>1. TypeOK'
      BY <1>1, <2>0, <2>2 DEF ScanAllBus, TypeOK, ControlPoint
    <3>2. Shape'
      BY <2>0, <2>2 DEF Shape, Running
    <3> QED BY <3>1, <3>2
  <2> QED BY <1>1, <2>1, <2>2 DEF ScanAllBus
<1>2. CASE ScanHosts
  <2>0. stack = <<>> /\ Len(<<>>) = 0
    BY <1>2, EmptySeq DEF ScanHosts, Shape, Running
  <2>1. CASE host < NumFunction /\ CallScanBus(host) /\ UNCHANGED <<host, err>>
    <3>1. host \in Bus
      BY <1>sub, <2>1 DEF TypeOK
    <3>2. TypeOK'
      BY <1>2, <2>1, <3>1, CallEffect DEF ScanHosts, TypeOK, ControlPoint
    <3>0. Len(stack') = 1 /\ stack' # <<>> /\ pc' = "ScanBus" /\ host' < NumFunction
      BY <2>0, <2>1, <3>1, CallEffect
    <3>3. Shape'
      BY <3>0 DEF Shape, Running
    <3> QED BY <3>2, <3>3
  <2>2. CASE pc' \in {"Done", "ScanHosts"} /\ UNCHANGED stack
    <3>1. TypeOK'
      BY <1>2, <2>0, <2>2 DEF ScanHosts, TypeOK, ControlPoint, Error, CallScanBus
    <3>2. Shape'
      BY <2>0, <2>2 DEF Shape, Running
    <3> QED BY <3>1, <3>2
  <2> QED BY <1>2, <2>1, <2>2 DEF ScanHosts
<1>3. CASE ScanBus
  <2>0. stack # <<>> /\ top \in Frame /\ host < NumFunction
    BY <1>3, TopOfStack DEF ScanBus, Shape, Running
  <2>1. CASE pc' = "Return" /\ err' = "kSuccess" /\ UNCHANGED stack
    BY <1>3, <2>0, <2>1 DEF ScanBus, TypeOK, ControlPoint, Error, Shape, Running
  <2>2. CASE top.device < NumDevice /\ Continue(top.device + 1, 0, "ScanBus") /\ UNCHANGED err
    <3>1. top.device + 1 \in 0 .. NumDevice
      BY <2>0, <2>2 DEF Frame
    <3>2. TypeOK'
      BY <1>3, <2>0, <2>2, <3>1, ContinueEffect DEF ScanBus, TypeOK, ControlPoint
    <3>3. Shape'
      BY <1>3, <2>0, <2>2, <3>1, ContinueEffect DEF ScanBus, Shape, Running
    <3> QED BY <3>2, <3>3
  <2>3. CASE top.device < NumDevice /\ Continue(top.device, 0, "ScanFunction") /\ UNCHANGED err
    <3>1. top.device \in 0 .. NumDevice
      BY <2>0 DEF Frame
    <3>2. TypeOK'
      BY <1>3, <2>0, <2>3, <3>1, ContinueEffect DEF ScanBus, TypeOK, ControlPoint
    <3>3. Shape'
      BY <1>3, <1>sub, <2>0, <2>3, <3>1, ContinueEffect DEF ScanBus, Shape, Running, InRange
    <3> QED BY <3>2, <3>3
  <2> QED BY <1>3, <2>1, <2>2, <2>3 DEF ScanBus
<1>4. CASE ScanFunction
  <2>0. /\ stack # <<>> /\ top \in Frame /\ host < NumFunction
        /\ InRange(top) /\ top.bus \in Bus
    BY <1>4, TopOfStack DEF ScanFunction, Shape, Running, Frame
  <2>1. AddDevice => devices' \in Seq(Device) /\ Len(devices') <= Capacity
    <3>1. [bus |-> top.bus, device |-> top.device, function |-> top.function,
           header_type |-> ReadHeaderType(config, top.bus, top.device, top.function)]
          \in Device
      BY <2>0, Reads DEF Device, InRange, TypeOK
    <3> QED
      BY <3>1, AppendProperties, LenProperties DEF AddDevice, ArrayFull, TypeOK
  <2>2. CASE UNCHANGED stack /\ pc' = "ScanDevice" /\ err' \in Error /\
             (AddDevice \/ UNCHANGED devices)
    <3>1. TypeOK'
      BY <1>4, <2>1, <2>2 DEF ScanFunction, TypeOK, ControlPoint
    <3>2. Shape'
      BY <1>4, <2>0, <2>2 DEF ScanFunction, Shape, Running, top
    <3> QED BY <3>1, <3>2
  <2>3. CASE AddDevice /\ UNCHANGED err /\
             CallScanBus(SecondaryBus(config, top.bus, top.device, top.function))
    <3>1. SecondaryBus(config, top.bus, top.device, top.function) \in Bus
      BY <2>0, Reads DEF TypeOK, InRange
    <3>2. TypeOK'
      BY <1>4, <2>1, <2>3, <3>1, CallEffect DEF ScanFunction, TypeOK, ControlPoint
    <3>3. ASSUME NEW k \in 1 .. Len(stack) PROVE InRange(stack'[k])
      <4>1. stack'[k] = stack[k]
        BY <2>3, <3>1, CallEffect
      <4>2. CASE k = Len(stack)
        BY <2>0, <4>1, <4>2 DEF top
      <4>3. CASE k # Len(stack)
        BY <2>0, <4>1, <4>3, TopOfStack DEF Shape
      <4> QED BY <4>2, <4>3
    <3>4. Shape'
      BY <1>4, <2>0, <2>3, <3>1, <3>3, CallEffect DEF ScanFunction, Shape, Running
    <3> QED BY <3>2, <3>4
  <2> QED BY <1>4, <2>2, <2>3 DEF ScanFunction, Error
<1>5. CASE ScanDevice
  <2>0. /\ stack # <<>> /\ top \in Frame /\ host < NumFunction
        /\ InRange(top)
    BY <1>5, TopOfStack DEF ScanDevice, Shape, Running
  <2>1. CASE pc' = "Return" /\ UNCHANGED stack
    BY <1>5, <2>0, <2>1 DEF ScanDevice, TypeOK, ControlPoint, Shape, Running
  <2>2. CASE Continue(top.device + 1, 0, "ScanBus")
    <3>1. top.device + 1 \in 0 .. NumDevice
      BY <2>0 DEF InRange, DeviceNo
    <3>2. TypeOK'
      BY <1>5, <2>0, <2>2, <3>1, ContinueEffect DEF ScanDevice, TypeOK, ControlPoint
    <3>3. Shape'
      BY <1>5, <2>0, <2>2, <3>1, ContinueEffect DEF ScanDevice, Shape, Running
    <3> QED BY <3>2, <3>3
  <2>3. CASE Continue(top.device, top.function + 1, "NextFunction")
    <3>1. top.device \in 0 .. NumDevice /\ top.function + 1 \in 0 .. NumFunction
      BY <2>0 DEF InRange, DeviceNo, FunctionNo
    <3>2. TypeOK'
      BY <1>5, <2>0, <2>3, <3>1, ContinueEffect DEF ScanDevice, TypeOK, ControlPoint
    <3>3. Shape'
      BY <1>5, <2>0, <2>3, <3>1, ContinueEffect DEF ScanDevice, Shape, Running, InRange
    <3> QED BY <3>2, <3>3
  <2> QED BY <1>5, <2>1, <2>2, <2>3 DEF ScanDevice
<1>6. CASE NextFunction
  <2>0. /\ stack # <<>> /\ top \in Frame /\ host < NumFunction
        /\ top.device \in DeviceNo
    BY <1>6, TopOfStack DEF NextFunction, Shape, Running
  <2>1. CASE Continue(top.device + 1, 0, "ScanBus")
    <3>1. top.device + 1 \in 0 .. NumDevice
      BY <2>0 DEF DeviceNo
    <3>2. TypeOK'
      BY <1>6, <2>0, <2>1, <3>1, ContinueEffect DEF NextFunction, TypeOK, ControlPoint
    <3>3. Shape'
      BY <1>6, <2>0, <2>1, <3>1, ContinueEffect DEF NextFunction, Shape, Running
    <3> QED BY <3>2, <3>3
  <2>2. CASE top.function < NumFunction /\ Continue(top.device, top.function + 1, "NextFunction")
    <3>1. top.device \in 0 .. NumDevice /\ top.function + 1 \in 0 .. NumFunction
      BY <2>0, <2>2 DEF Frame
    <3>2. TypeOK'
      BY <1>6, <2>0, <2>2, <3>1, ContinueEffect DEF NextFunction, TypeOK, ControlPoint
    <3>3. Shape'
      BY <1>6, <2>0, <2>2, <3>1, ContinueEffect DEF NextFunction, Shape, Running
    <3> QED BY <3>2, <3>3
  <2>3. CASE top.function < NumFunction /\ Continue(top.device, top.function, "ScanFunction")
    <3>1. top.device \in 0 .. NumDevice /\ top.function \in 0 .. NumFunction
      BY <2>0 DEF Frame
    <3>2. TypeOK'
      BY <1>6, <2>0, <2>3, <3>1, ContinueEffect DEF NextFunction, TypeOK, ControlPoint
    <3>3. Shape'
      BY <1>6, <1>sub, <2>0, <2>3, <3>1, ContinueEffect
         DEF NextFunction, Shape, Running, InRange
    <3> QED BY <3>2, <3>3
  <2> QED BY <1>6, <2>1, <2>2, <2>3 DEF NextFunction
<1>7. CASE Return
  <2>0. stack # <<>> /\ host < NumFunction
    BY <1>7 DEF Return, Shape, Running
  <2>1. TypeOK'
    BY <1>7, <2>0, ReturnEffect DEF Return, TypeOK, ControlPoint
  <2>2. \A k \in 1 .. Len(stack') : InRange(stack'[k])
    BY <1>7, <2>0, ReturnEffect DEF Shape
  <2>3. CASE Len(stack) = 1
    <3>1. stack' = <<>> /\ Len(<<>>) = 0 /\ pc' \in {"Done", "ScanHosts"}
      BY <1>7, <2>0, <2>3, ReturnEffect, EmptySeq DEF Return
    <3>2. Shape'
      BY <3>1 DEF Shape, Running
    <3> QED BY <2>1, <3>2
  <2>4. CASE Len(stack) # 1
    <3>1. /\ stack' # <<>> /\ Len(stack') \in 1 .. Len(stack')
          /\ pc' = "ScanDevice" /\ host' < NumFunction
      BY <1>7, <2>0, <2>4, ReturnEffect DEF Return
    <3>2. InRange(top')
      BY <2>2, <3>1 DEF top
    <3>3. Shape'
      BY <2>2, <3>1, <3>2 DEF Shape, Running, InRange
    <3> QED BY <2>1, <3>3
  <2> QED BY <2>3, <2>4
<1>8. CASE UNCHANGED vars
  BY <1>8 DEF vars, TypeOK, Shape, Running, top
<1> QED
  BY <1>1, <1>2, <1>3, <1>4, <1>5, <1>6, <1>7, <1>8 DEF Next

\* Every variable keeps its type, on every machine: in particular the array of
\* devices is never written past its end.
THEOREM TypeCorrect == Spec => []TypeOK
  BY TInvInit, TInvNext, PTL DEF Spec, TInv

-----------------------------------------------------------------------------
(***************************************************************************)
(* What the scanner asks about a location, and which buses are reachable.  *)
(***************************************************************************)
LEMMA RootsReachable ==
  ASSUME NEW c PROVE RootBuses(c) \subseteq ReachableBuses(c)
<1>1. RootBuses(c) \subseteq Bus
  BY DEF RootBuses, Bus, FunctionNo
<1> QED
  BY <1>1 DEF ReachableBuses

LEMMA BridgesReachable ==
  ASSUME NEW c, NEW loc \in Location, loc[1] \in ReachableBuses(c),
         NEW b \in Bus, Leads(c, loc, b)
  PROVE  b \in ReachableBuses(c)
  BY DEF ReachableBuses, Closed

LEMMA ReachableLeast ==
  ASSUME NEW c, NEW S \in SUBSET Bus, RootBuses(c) \subseteq S, Closed(c, S)
  PROVE  ReachableBuses(c) \subseteq S
  BY DEF ReachableBuses

\* The location the running chain is at.
At(r) == <<r.bus, r.device, r.function>>

LEMMA AtLocation ==
  ASSUME NEW r \in Frame, InRange(r)
  PROVE  /\ At(r) \in Location
         /\ At(r)[1] = r.bus /\ At(r)[2] = r.device /\ At(r)[3] = r.function
  BY DEF At, InRange, Frame, Location

-----------------------------------------------------------------------------
(***************************************************************************)
(* The depth of the recursion and the meaning of kFull.                    *)
(***************************************************************************)
FullInv ==
  err = "kFull" =>
    /\ pc \in {"ScanDevice", "Return", "Done"}
    /\ Len(devices) = Capacity

LEMMA LengthsNat ==
  ASSUME TypeOK PROVE Len(devices) \in Nat /\ Len(stack) \in Nat
  BY LenProperties DEF TypeOK

LEMMA AddDeviceEffect ==
  ASSUME TypeOK, AddDevice
  PROVE  /\ Len(devices') = Len(devices) + 1
         /\ \A i \in 1 .. Len(devices) : devices'[i] = devices[i]
         /\ devices'[Len(devices')] =
              [bus |-> top.bus, device |-> top.device, function |-> top.function,
               header_type |-> ReadHeaderType(config, top.bus, top.device, top.function)]
  BY AppendProperties, LenProperties DEF TypeOK, AddDevice, ArrayFull

LEMMA SameLength ==
  ASSUME NEW S, NEW s \in Seq(S), s # <<>>, NEW e
  PROVE  Len([s EXCEPT ![Len(s)] = e]) = Len(s)
<1>1. s \in Seq(S \union {e})
  BY SeqMonotonic
<1>2. Len(s) \in 1 .. Len(s)
  BY EmptySeq
<1> QED
  BY <1>1, <1>2, ExceptSeq

LEMMA AtMostOne ==
  ASSUME NEW m, NEW n \in Nat, m = 0 \/ m = 1
  PROVE  m <= n + 1
  OBVIOUS

LEMMA DepthNext ==
  ASSUME TInv, TInv', DepthBounded, [Next]_vars
  PROVE  DepthBounded'
<1>0. TypeOK /\ Shape /\ Len(devices) \in Nat /\ Len(stack) \in Nat
  BY LengthsNat DEF TInv
<1>1. CASE ScanAllBus
  <2>1. stack = <<>> /\ Len(stack) = 0 /\ Len(devices') = 0
    BY <1>0, <1>1, EmptySeq DEF ScanAllBus, Shape, Running
  <2>2. Len(stack') = 0 \/ Len(stack') = 1
    BY <1>0, <1>1, <2>1, CallEffect DEF ScanAllBus, Bus
  <2>3. Len(devices') = 0
    BY <2>1
  <2>4. Len(stack') <= Len(devices') + 1
    BY <2>2, <2>3, AtMostOne
  <2> QED BY <2>4 DEF DepthBounded
<1>2. CASE ScanHosts
  <2>1. stack = <<>> /\ Len(stack) = 0 /\ devices' = devices
    BY <1>0, <1>2, EmptySeq DEF ScanHosts, Shape, Running
  <2>2. host < NumFunction => host \in Bus
    BY <1>0 DEF TypeOK, Bus
  <2>3. Len(stack') = 0 \/ Len(stack') = 1
    BY <1>0, <1>2, <2>1, <2>2, CallEffect DEF ScanHosts
  <2>4. Len(devices') \in Nat
    BY <1>0, <2>1
  <2>5. Len(stack') <= Len(devices') + 1
    BY <2>3, <2>4, AtMostOne
  <2> QED BY <2>5 DEF DepthBounded
<1>3. CASE ScanBus \/ ScanDevice \/ NextFunction
  <2>1. stack # <<>> /\ devices' = devices
    BY <1>0, <1>3 DEF ScanBus, ScanDevice, NextFunction, Shape, Running
  <2>2. \/ UNCHANGED stack
        \/ \E d, f, at : Continue(d, f, at)
    BY <1>3 DEF ScanBus, ScanDevice, NextFunction
  <2>3. ASSUME NEW d, NEW f, NEW at, Continue(d, f, at)
        PROVE  Len(stack') = Len(stack)
    BY <1>0, <2>1, <2>3, SameLength DEF Continue, TypeOK
  <2>4. Len(stack') = Len(stack)
    BY <2>2, <2>3
  <2> QED BY <2>1, <2>4 DEF DepthBounded
<1>4. CASE ScanFunction
  <2>0. SecondaryBus(config, top.bus, top.device, top.function) \in Bus
    BY <1>0, <1>4, TopOfStack, Reads DEF ScanFunction, Shape, Running, TypeOK, InRange, Frame
  <2>1. CASE UNCHANGED <<devices, stack>>
    BY <2>1 DEF DepthBounded
  <2>2. CASE AddDevice /\ UNCHANGED stack
    BY <1>0, <2>2, AddDeviceEffect DEF DepthBounded
  <2>3. CASE AddDevice /\ CallScanBus(SecondaryBus(config, top.bus, top.device, top.function))
    BY <1>0, <2>0, <2>3, AddDeviceEffect, CallEffect DEF DepthBounded
  <2> QED BY <1>4, <2>1, <2>2, <2>3 DEF ScanFunction
<1>5. CASE Return
  BY <1>0, <1>5, ReturnEffect DEF Return, Shape, Running, DepthBounded
<1>6. CASE UNCHANGED vars
  BY <1>6 DEF vars, DepthBounded
<1> QED
  BY <1>1, <1>2, <1>3, <1>4, <1>5, <1>6 DEF Next

LEMMA FullNext ==
  ASSUME TInv, FullInv, [Next]_vars
  PROVE  FullInv'
<1>1. CASE ScanFunction
  <2>1. CASE UNCHANGED err
    BY <1>1, <2>1 DEF ScanFunction, FullInv
  <2>2. CASE err' = "kSuccess"
    BY <2>2 DEF FullInv
  <2>3. CASE Len(devices) = Capacity /\ UNCHANGED devices /\ pc' = "ScanDevice"
    BY <2>3 DEF FullInv
  <2> QED BY <1>1, <2>1, <2>2, <2>3 DEF ScanFunction, ArrayFull
<1>2. CASE ScanAllBus \/ ScanHosts \/ ScanBus \/ NextFunction
  BY <1>2 DEF ScanAllBus, ScanHosts, ScanBus, NextFunction, FullInv
<1>3. CASE ScanDevice \/ Return
  BY <1>3 DEF ScanDevice, Return, FullInv
<1>4. CASE UNCHANGED vars
  BY <1>4 DEF vars, FullInv
<1> QED
  BY <1>1, <1>2, <1>3, <1>4 DEF Next

LEMMA DepthAndFullInit == Init => DepthBounded /\ FullInv
  BY EmptySeq DEF Init, DepthBounded, FullInv

\* The recursion of ScanBus never gets deeper than the list is long, plus one,
\* so that it is bounded by devices.size() + 1 even on cyclic topologies.
THEOREM DepthIsBounded == Spec => []DepthBounded
  BY TInvInit, TInvNext, DepthAndFullInit, DepthNext, PTL DEF Spec

\* kFull is returned only with a full array.
THEOREM FullIsFull == Spec => []FullMeansFull
<1>1. FullInv => FullMeansFull
  BY DEF FullInv, FullMeansFull
<1> QED
  BY <1>1, TInvInit, TInvNext, DepthAndFullInit, FullNext, PTL DEF Spec

\* After an error only ScanDevice and Return run, and both pass it on.
LEMMA UnwindNext ==
  ASSUME TInv, FullInv, Next, err = "kFull"
  PROVE  err' = "kFull" /\ devices' = devices /\ Len(stack') <= Len(stack)
<1>0. TypeOK /\ Shape /\ Len(stack) \in Nat /\ pc \in {"ScanDevice", "Return", "Done"}
  BY LengthsNat DEF TInv, FullInv
<1>1. CASE ScanDevice
  <2>1. UNCHANGED <<err, devices, stack>>
    BY <1>1 DEF ScanDevice
  <2> QED BY <1>0, <2>1
<1>2. CASE Return
  <2>1. UNCHANGED <<err, devices>> /\ stack # <<>>
    BY <1>0, <1>2 DEF Return, Shape, Running
  <2>2. Len(stack') = Len(stack) - 1
    BY <1>0, <1>2, <2>1, ReturnEffect
  <2> QED BY <1>0, <2>1, <2>2
<1>3. ~(ScanAllBus \/ ScanHosts \/ ScanBus \/ ScanFunction \/ NextFunction)
  BY <1>0 DEF ScanAllBus, ScanHosts, ScanBus, ScanFunction, NextFunction
<1> QED BY <1>1, <1>2, <1>3 DEF Next

\* Once AddDevice has failed, the error reaches ScanAllBus: nothing is listed or called
\* on the way.
THEOREM ErrorUnwinds == Spec => FullUnwinds
<1>1. TInv /\ FullInv /\ [Next]_vars =>
        [err = "kFull" => /\ err' = "kFull" /\ devices' = devices
                          /\ Len(stack') <= Len(stack)]_vars
  BY UnwindNext
<1> QED
  BY <1>1, TInvInit, TInvNext, DepthAndFullInit, FullNext, PTL DEF Spec, FullUnwinds

-----------------------------------------------------------------------------
(***************************************************************************)
(* What PciScan lists: nothing but what there is to see.                   *)
(***************************************************************************)
\* The buses of the running calls of ScanBus.
StackBuses == {stack[k].bus : k \in 1 .. Len(stack)}

-----------------------------------------------------------------------------
(***************************************************************************)
(* The effect of the operations on the stack and the list, once more, in   *)
(* terms of StackBuses and Listed.                                         *)
(***************************************************************************)
LEMMA BusesAfterContinue ==
  ASSUME TypeOK, stack # <<>>,
         NEW d \in 0 .. NumDevice, NEW f \in 0 .. NumFunction, NEW at,
         Continue(d, f, at)
  PROVE  StackBuses' = StackBuses
<1>1. /\ Len(stack) \in Nat \ {0} /\ Len(stack') = Len(stack)
      /\ \A k \in 1 .. Len(stack) - 1 : stack'[k] = stack[k]
      /\ top'.bus = top.bus
  BY ContinueEffect
<1>2. \A k \in 1 .. Len(stack) : stack'[k].bus = stack[k].bus
  BY <1>1 DEF top
<1> QED
  BY <1>1, <1>2 DEF StackBuses

\* The loops never change the bus of a record, whatever their variables are.
LEMMA SameBuses ==
  ASSUME NEW s \in Seq(Frame), s # <<>>, NEW d, NEW f, NEW t,
         t = [s EXCEPT ![Len(s)] = [bus |-> s[Len(s)].bus, device |-> d, function |-> f]]
  PROVE  {t[k].bus : k \in 1 .. Len(t)} = {s[k].bus : k \in 1 .. Len(s)}
<1>1. Len(t) = Len(s)
  BY SameLength
<1>2. \A k \in 1 .. Len(s) : t[k].bus = s[k].bus
  BY LenProperties
<1> QED
  BY <1>1, <1>2

LEMMA BusesAfterCall ==
  ASSUME TypeOK, NEW b \in Bus, CallScanBus(b)
  PROVE  StackBuses' = StackBuses \union {b}
<1>1. /\ Len(stack) \in Nat /\ Len(stack') = Len(stack) + 1
      /\ \A k \in 1 .. Len(stack) : stack'[k] = stack[k]
      /\ top' = [bus |-> b, device |-> 0, function |-> 0]
  BY CallEffect
<1>2. stack'[Len(stack')].bus = b
  BY <1>1 DEF top
<1> QED
  BY <1>1, <1>2 DEF StackBuses

LEMMA BusesAfterReturn ==
  ASSUME TypeOK, stack # <<>>, Return
  PROVE  /\ StackBuses' \subseteq StackBuses
         /\ StackBuses \subseteq StackBuses' \union {top.bus}
<1>1. /\ Len(stack) \in Nat \ {0} /\ Len(stack') = Len(stack) - 1
      /\ \A k \in 1 .. Len(stack) - 1 : stack'[k] = stack[k]
  BY ReturnEffect
<1>2. \A k \in 1 .. Len(stack) : k # Len(stack) => k \in 1 .. Len(stack')
  BY <1>1
<1> QED
  BY <1>1, <1>2 DEF StackBuses, top

LEMMA BusesOfEmpty ==
  ASSUME TypeOK, stack = <<>>
  PROVE  StackBuses = {}
<1>1. Len(stack) = 0
  BY EmptySeq
<1> QED
  BY <1>1 DEF StackBuses

LEMMA ListedAfterAdd ==
  ASSUME TypeOK, AddDevice
  PROVE  Listed' = Listed \union {At(top)}
<1>1. /\ Len(devices) \in Nat /\ Len(devices') = Len(devices) + 1
      /\ \A i \in 1 .. Len(devices) : devices'[i] = devices[i]
      /\ LocationOf(devices'[Len(devices')]) = At(top)
  BY AddDeviceEffect, LengthsNat DEF LocationOf, At
<1>2. 1 .. Len(devices') = (1 .. Len(devices)) \union {Len(devices')}
  BY <1>1
<1>3. \A i \in 1 .. Len(devices) : LocationOf(devices'[i]) = LocationOf(devices[i])
  BY <1>1
<1>4. ASSUME NEW loc \in Listed' PROVE loc \in Listed \union {At(top)}
  <2>1. PICK i \in 1 .. Len(devices') : loc = LocationOf(devices'[i])
    BY DEF Listed
  <2>2. CASE i \in 1 .. Len(devices)
    BY <1>3, <2>1, <2>2 DEF Listed
  <2>3. CASE i = Len(devices')
    BY <1>1, <2>1, <2>3
  <2> QED BY <1>2, <2>2, <2>3
<1>5. ASSUME NEW loc \in Listed PROVE loc \in Listed'
  <2>1. PICK i \in 1 .. Len(devices) : loc = LocationOf(devices[i])
    BY DEF Listed
  <2> QED BY <1>2, <1>3, <2>1 DEF Listed
<1>6. At(top) \in Listed'
  BY <1>1, <1>2 DEF Listed
<1> QED
  BY <1>4, <1>5, <1>6

LEMMA OnBusAt ==
  ASSUME NEW c, NEW r \in Frame
  PROVE  OnBus(c, At(r)) <=>
           /\ Present(c, r.bus, r.device, 0)
           /\ Present(c, r.bus, r.device, r.function)
           /\ r.function = 0 \/ ReadHeaderType(c, r.bus, r.device, 0)
  BY DEF OnBus, At

-----------------------------------------------------------------------------
(***************************************************************************)
(* Soundness.                                                              *)
(***************************************************************************)
Sound ==
  /\ StackBuses \subseteq ReachableBuses(config)
  /\ \A k \in 1 .. Len(stack) - 1 : OnBus(config, At(stack[k]))
  /\ pc \in {"ScanFunction", "ScanDevice"} => OnBus(config, At(top))
  /\ pc = "NextFunction" => /\ Present(config, top.bus, top.device, 0)
                            /\ ReadHeaderType(config, top.bus, top.device, 0)
  /\ pc = "ScanHosts" => host # 0
  /\ host # 0 => ~IsSingleFunctionDevice(ReadHeaderType(config, 0, 0, 0))
  /\ OnlyVisible

LEMMA SoundInit == Init => Sound
<1> SUFFICES ASSUME Init PROVE Sound
  OBVIOUS
<1>1. Len(stack) = 0 /\ Len(devices) = 0
  BY EmptySeq DEF Init
<1>2. StackBuses = {} /\ OnlyVisible
  BY <1>1 DEF StackBuses, OnlyVisible
<1> QED
  BY <1>1, <1>2 DEF Init, Sound

LEMMA SoundNext == TInv /\ Sound /\ [Next]_vars => Sound'
<1> SUFFICES ASSUME TypeOK, Shape, Sound, [Next]_vars PROVE Sound'
  BY DEF TInv
<1>sub. 0 \in Bus /\ FunctionNo \subseteq Bus /\ RootBuses(config) \subseteq ReachableBuses(config)
  BY RootsReachable DEF Bus, FunctionNo
<1>same. config' = config /\ devices' = devices => OnlyVisible'
  BY DEF Sound, OnlyVisible
<1>on. ASSUME stack # <<>>, NEW d \in 0 .. NumDevice, d = top.device + 1,
              Continue(d, 0, "ScanBus"), config' = config, host' = host, OnlyVisible'
       PROVE  Sound'
  <2>1. /\ Len(stack') = Len(stack) /\ pc' = "ScanBus"
        /\ \A k \in 1 .. Len(stack) - 1 : stack'[k] = stack[k]
        /\ StackBuses' = StackBuses
    BY <1>on, <1>sub, ContinueEffect, BusesAfterContinue
  <2> QED BY <1>on, <2>1 DEF Sound
<1>1. CASE ScanAllBus
  <2>0. stack = <<>> /\ Len(stack) = 0 /\ config' = config /\ OnlyVisible'
    BY <1>1, EmptySeq DEF ScanAllBus, Shape, Running, OnlyVisible
  <2>1. CASE IsSingleFunctionDevice(ReadHeaderType(config, 0, 0, 0)) /\ CallScanBus(0) /\ host' = 0
    <3>1. Len(stack') = 1 /\ pc' = "ScanBus" /\ StackBuses' = {0}
      BY <2>0, <2>1, <1>sub, CallEffect, BusesAfterCall, BusesOfEmpty
    <3>2. 0 \in ReachableBuses(config)
      BY <2>1, <1>sub DEF RootBuses
    <3> QED BY <2>0, <2>1, <3>1, <3>2 DEF Sound
  <2>2. CASE /\ ~IsSingleFunctionDevice(ReadHeaderType(config, 0, 0, 0))
             /\ pc' = "ScanHosts" /\ host' = 1 /\ UNCHANGED stack
    <3>1. StackBuses' = {}
      BY <2>0, <2>2, BusesOfEmpty DEF StackBuses
    <3> QED BY <2>0, <2>2, <3>1 DEF Sound
  <2> QED BY <1>1, <2>1, <2>2 DEF ScanAllBus
<1>2. CASE ScanHosts
  <2>0. /\ stack = <<>> /\ Len(stack) = 0 /\ config' = config /\ OnlyVisible'
        /\ host \in 0 .. NumFunction /\ host # 0
        /\ ~IsSingleFunctionDevice(ReadHeaderType(config, 0, 0, 0))
    BY <1>2, EmptySeq, <1>same DEF ScanHosts, Shape, Running, Sound, TypeOK
  <2>1. CASE host < NumFunction /\ Present(config, 0, 0, host) /\ CallScanBus(host) /\ host' = host
    <3>1. host \in RootBuses(config) /\ host \in Bus
      BY <2>0, <2>1, <1>sub DEF RootBuses, FunctionNo
    <3>2. Len(stack') = 1 /\ pc' = "ScanBus" /\ StackBuses' = {host}
      BY <2>0, <2>1, <3>1, CallEffect, BusesAfterCall, BusesOfEmpty
    <3> QED BY <2>0, <2>1, <3>1, <3>2, <1>sub DEF Sound
  <2>2. CASE pc' \in {"Done", "ScanHosts"} /\ UNCHANGED stack /\ host' # 0
    <3>1. StackBuses' = {}
      BY <2>0, <2>2, BusesOfEmpty DEF StackBuses
    <3> QED BY <2>0, <2>2, <3>1 DEF Sound
  <2>3. host + 1 # 0
    BY <2>0
  <2> QED BY <1>2, <2>0, <2>1, <2>2, <2>3 DEF ScanHosts
<1>3. CASE ScanBus
  <2>0. /\ stack # <<>> /\ top \in Frame /\ config' = config /\ OnlyVisible' /\ host' = host
        /\ pc = "ScanBus"
    BY <1>3, TopOfStack, <1>same DEF ScanBus, Shape, Running
  <2>1. CASE pc' = "Return" /\ UNCHANGED stack
    BY <2>0, <2>1 DEF Sound, StackBuses
  <2>2. CASE top.device < NumDevice /\ Continue(top.device + 1, 0, "ScanBus")
    <3>1. top.device + 1 \in 0 .. NumDevice
      BY <2>0, <2>2 DEF Frame
    <3> QED BY <2>0, <2>2, <3>1, <1>on
  <2>3. CASE /\ Present(config, top.bus, top.device, 0)
             /\ Continue(top.device, 0, "ScanFunction")
    <3>1. top.device \in 0 .. NumDevice
      BY <2>0 DEF Frame
    <3>2. OnBus(config, At(top'))
      BY <2>0, <2>3, <3>1, ContinueEffect DEF OnBus, At
    <3> QED BY <2>0, <2>3, <3>1, <3>2, ContinueEffect, BusesAfterContinue DEF Sound
  <2> QED BY <1>3, <2>1, <2>2, <2>3 DEF ScanBus
<1>4. CASE ScanFunction
  <2>0. /\ stack # <<>> /\ top \in Frame /\ InRange(top) /\ top.bus \in Bus
        /\ config' = config /\ host' = host /\ pc = "ScanFunction"
        /\ OnBus(config, At(top))
    BY <1>4, TopOfStack DEF ScanFunction, Shape, Running, Frame, Sound
  <2>1. At(top) \in Visible(config)
    <3>1. top.bus \in StackBuses
      BY <2>0, TopOfStack DEF StackBuses, top
    <3> QED BY <2>0, <3>1, AtLocation DEF Visible, Sound
  <2>2. AddDevice => OnlyVisible'
    <3> SUFFICES ASSUME AddDevice, NEW i \in 1 .. Len(devices') PROVE
             /\ LocationOf(devices'[i]) \in Visible(config)
             /\ devices'[i].header_type =
                  ReadHeaderType(config, devices'[i].bus, devices'[i].device, devices'[i].function)
      BY <2>0 DEF OnlyVisible
    <3>1. /\ Len(devices) \in Nat /\ Len(devices') = Len(devices) + 1
          /\ \A j \in 1 .. Len(devices) : devices'[j] = devices[j]
      BY AddDeviceEffect, LengthsNat
    <3>2. CASE i \in 1 .. Len(devices)
      BY <3>1, <3>2 DEF Sound, OnlyVisible
    <3>3. CASE i = Len(devices')
      BY <2>1, <3>3, AddDeviceEffect DEF LocationOf, At
    <3> QED BY <3>1, <3>2, <3>3
  <2>3. CASE UNCHANGED stack /\ pc' = "ScanDevice" /\ (AddDevice \/ UNCHANGED devices)
    <3>1. OnlyVisible'
      BY <2>0, <2>2, <2>3, <1>same
    <3> QED BY <2>0, <2>3, <3>1 DEF Sound, StackBuses, top
  <2>4. CASE /\ AddDevice
             /\ IsBridge(config, top.bus, top.device, top.function)
             /\ CallScanBus(SecondaryBus(config, top.bus, top.device, top.function))
    <3> DEFINE b == SecondaryBus(config, top.bus, top.device, top.function)
    <3>1. b \in Bus
      BY <2>0, Reads DEF TypeOK, InRange
    <3>2. Leads(config, At(top), b)
      BY <2>0, <2>4 DEF Leads, At
    <3>3. b \in ReachableBuses(config)
      BY <2>0, <2>1, <3>1, <3>2, AtLocation, BridgesReachable DEF Visible
    <3>4. /\ Len(stack) \in Nat /\ Len(stack') = Len(stack) + 1 /\ pc' = "ScanBus"
          /\ \A k \in 1 .. Len(stack) : stack'[k] = stack[k]
          /\ StackBuses' = StackBuses \union {b}
      BY <2>4, <3>1, CallEffect, BusesAfterCall
    <3>5. ASSUME NEW k \in 1 .. Len(stack') - 1 PROVE OnBus(config, At(stack'[k]))
      <4>1. CASE k = Len(stack)
        BY <2>0, <3>4, <4>1 DEF top
      <4>2. CASE k # Len(stack)
        <5>1. k \in 1 .. Len(stack) - 1
          BY <3>4, <4>2
        <5> QED BY <3>4, <5>1 DEF Sound
      <4> QED BY <4>1, <4>2
    <3> HIDE DEF b
    <3> QED BY <2>0, <2>2, <2>4, <3>3, <3>4, <3>5 DEF Sound
  <2> QED BY <1>4, <2>3, <2>4 DEF ScanFunction
<1>5. CASE ScanDevice
  <2>0. /\ stack # <<>> /\ top \in Frame /\ InRange(top)
        /\ config' = config /\ OnlyVisible' /\ host' = host /\ pc = "ScanDevice"
        /\ OnBus(config, At(top))
    BY <1>5, TopOfStack, <1>same DEF ScanDevice, Shape, Running, Sound
  <2>1. CASE pc' = "Return" /\ UNCHANGED stack
    BY <2>0, <2>1 DEF Sound, StackBuses
  <2>2. CASE Continue(top.device + 1, 0, "ScanBus")
    <3>1. top.device + 1 \in 0 .. NumDevice
      BY <2>0 DEF InRange, DeviceNo
    <3> QED BY <2>0, <2>2, <3>1, <1>on
  <2>3. CASE /\ top.function = 0 =>
                  ~IsSingleFunctionDevice(ReadHeaderType(config, top.bus, top.device, 0))
             /\ Continue(top.device, top.function + 1, "NextFunction")
    <3>1. top.device \in 0 .. NumDevice /\ top.function + 1 \in 0 .. NumFunction
      BY <2>0 DEF InRange, DeviceNo, FunctionNo
    <3>2. /\ Present(config, top.bus, top.device, 0)
          /\ ReadHeaderType(config, top.bus, top.device, 0)
      BY <2>0, <2>3, OnBusAt DEF IsSingleFunctionDevice
    <3>3. top'.bus = top.bus /\ top'.device = top.device
      BY <2>0, <2>3, <3>1, ContinueEffect
    <3> QED BY <2>0, <2>3, <3>1, <3>2, <3>3, ContinueEffect, BusesAfterContinue DEF Sound
  <2> QED BY <1>5, <2>1, <2>2, <2>3 DEF ScanDevice
<1>6. CASE NextFunction
  <2>0. /\ stack # <<>> /\ top \in Frame /\ top.device \in DeviceNo
        /\ config' = config /\ OnlyVisible' /\ host' = host /\ pc = "NextFunction"
        /\ Present(config, top.bus, top.device, 0)
        /\ ReadHeaderType(config, top.bus, top.device, 0)
    BY <1>6, TopOfStack, <1>same DEF NextFunction, Shape, Running, Sound
  <2>1. CASE Continue(top.device + 1, 0, "ScanBus")
    <3>1. top.device + 1 \in 0 .. NumDevice
      BY <2>0 DEF DeviceNo
    <3> QED BY <2>0, <2>1, <3>1, <1>on
  <2>2. CASE top.function < NumFunction /\ Continue(top.device, top.function + 1, "NextFunction")
    <3>1. top.device \in 0 .. NumDevice /\ top.function + 1 \in 0 .. NumFunction
      BY <2>0, <2>2 DEF Frame
    <3>2. top'.bus = top.bus /\ top'.device = top.device
      BY <2>0, <2>2, <3>1, ContinueEffect
    <3> QED BY <2>0, <2>2, <3>1, <3>2, ContinueEffect, BusesAfterContinue DEF Sound
  <2>3. CASE /\ Present(config, top.bus, top.device, top.function)
             /\ Continue(top.device, top.function, "ScanFunction")
    <3>1. top.device \in 0 .. NumDevice /\ top.function \in 0 .. NumFunction
      BY <2>0 DEF Frame
    <3>2. OnBus(config, At(top'))
      BY <2>0, <2>3, <3>1, ContinueEffect DEF OnBus, At
    <3> QED BY <2>0, <2>3, <3>1, <3>2, ContinueEffect, BusesAfterContinue DEF Sound
  <2> QED BY <1>6, <2>1, <2>2, <2>3 DEF NextFunction
<1>7. CASE Return
  <2>0. /\ stack # <<>> /\ config' = config /\ OnlyVisible' /\ pc = "Return"
        /\ host \in 0 .. NumFunction
    BY <1>7, <1>same DEF Return, Shape, Running, TypeOK
  <2>1. /\ Len(stack) \in Nat \ {0} /\ Len(stack') = Len(stack) - 1
        /\ \A k \in 1 .. Len(stack) - 1 : stack'[k] = stack[k]
        /\ StackBuses' \subseteq StackBuses
    BY <1>7, <2>0, ReturnEffect, BusesAfterReturn
  <2>2. \A k \in 1 .. Len(stack') : OnBus(config, At(stack'[k]))
    BY <2>1 DEF Sound
  <2>3. pc' = "ScanDevice" => OnBus(config, At(top'))
    BY <1>7, <2>1, <2>2 DEF Return, top
  <2>4. pc' \in {"ScanDevice", "Done", "ScanHosts"} /\ (pc' = "ScanHosts" => host' # 0)
    BY <1>7, <2>0 DEF Return
  <2>5. host' # 0 => host # 0
    BY <1>7 DEF Return
  <2>6. \A k \in 1 .. Len(stack') - 1 : OnBus(config, At(stack'[k]))
    BY <2>1, <2>2
  <2> QED BY <2>0, <2>1, <2>3, <2>4, <2>5, <2>6 DEF Sound
<1>8. CASE UNCHANGED vars
  BY <1>8, <1>same DEF vars, Sound, StackBuses, top
<1> QED
  BY <1>1, <1>2, <1>3, <1>4, <1>5, <1>6, <1>7, <1>8 DEF Next

\* Whatever the bridges of the machine say, each entry of pci::devices is a
\* function that a bus scan sees on a bus the roots lead to, and its
\* header_type is the one that function answered.
THEOREM OnlyVisibleListed == Spec => []OnlyVisible
<1>1. Init => TInv /\ Sound
  BY TInvInit, SoundInit
<1>2. TInv /\ Sound /\ [Next]_vars => (TInv /\ Sound)'
  BY TInvNext, SoundNext
<1>3. Sound => OnlyVisible
  BY DEF Sound
<1> QED
  BY <1>1, <1>2, <1>3, PTL DEF Spec
-----------------------------------------------------------------------------
(***************************************************************************)
(* The order of the list: a bus is entered through a root or a listed      *)
(* bridge, so a bridge precedes all that is behind it.                     *)
(***************************************************************************)
Entered(bus) ==
  \/ bus \in RootBuses(config)
  \/ \E j \in 1 .. Len(devices) : Leads(config, LocationOf(devices[j]), bus)

Ordered == (\A b \in StackBuses : Entered(b)) /\ BridgeFirst

LEMMA OrderedInit == Init => Ordered
<1> SUFFICES ASSUME Init PROVE Ordered
  OBVIOUS
<1>1. Len(stack) = 0 /\ Len(devices) = 0
  BY EmptySeq DEF Init
<1> QED
  BY <1>1 DEF Ordered, StackBuses, BridgeFirst

\* What AddDevice appends is on a bus that has been entered.
LEMMA OrderedAdd ==
  ASSUME TypeOK, stack # <<>>, Ordered, AddDevice, config' = config
  PROVE  /\ BridgeFirst'
         /\ \A b : Entered(b) => Entered(b)'
<1>1. /\ Len(devices) \in Nat /\ Len(devices') = Len(devices) + 1
      /\ \A j \in 1 .. Len(devices) : devices'[j] = devices[j]
      /\ devices'[Len(devices')].bus = top.bus
  BY AddDeviceEffect, LengthsNat
<1>2. 1 .. Len(devices) \subseteq 1 .. Len(devices')
  BY <1>1
<1>3. \A b : Entered(b) => Entered(b)'
  BY <1>1, <1>2 DEF Entered
<1>4. ASSUME NEW i \in 1 .. Len(devices')
      PROVE  \/ devices'[i].bus \in RootBuses(config)
             \/ \E j \in 1 .. i - 1 : Leads(config, LocationOf(devices'[j]), devices'[i].bus)
  <2>1. CASE i \in 1 .. Len(devices)
    <3>1. \A j \in 1 .. i - 1 : j \in 1 .. Len(devices)
      BY <1>1, <2>1
    <3> QED BY <1>1, <2>1, <3>1 DEF Ordered, BridgeFirst
  <2>2. CASE i = Len(devices')
    <3>1. top.bus \in StackBuses
      BY TopOfStack DEF StackBuses, top
    <3>2. Entered(top.bus)
      BY <3>1 DEF Ordered
    <3>3. 1 .. i - 1 = 1 .. Len(devices)
      BY <1>1, <2>2
    <3> QED BY <1>1, <2>2, <3>2, <3>3 DEF Entered
  <2> QED BY <1>1, <2>1, <2>2
<1>5. BridgeFirst'
  BY <1>4 DEF BridgeFirst
<1> QED
  BY <1>3, <1>5

LEMMA OrderedNext == TInv /\ Sound /\ Ordered /\ [Next]_vars => Ordered'
<1> SUFFICES ASSUME TypeOK, Shape, Sound, Ordered, [Next]_vars PROVE Ordered'
  BY DEF TInv
<1>same. ASSUME config' = config, devices' = devices
         PROVE  BridgeFirst' /\ \A b : Entered(b) => Entered(b)'
  BY <1>same DEF Ordered, BridgeFirst, Entered
<1>1. CASE ScanAllBus
  <2>0. stack = <<>> /\ config' = config /\ devices' = <<>> /\ Len(devices') = 0
    BY <1>1, EmptySeq DEF ScanAllBus, Shape, Running
  <2>1. BridgeFirst'
    BY <2>0 DEF BridgeFirst
  <2>2. CASE IsSingleFunctionDevice(ReadHeaderType(config, 0, 0, 0)) /\ CallScanBus(0)
    <3>1. 0 \in Bus /\ 0 \in RootBuses(config)
      BY <2>2 DEF Bus, RootBuses
    <3>2. StackBuses' = {0}
      BY <2>0, <2>2, <3>1, BusesAfterCall, BusesOfEmpty
    <3> QED BY <2>0, <2>1, <3>1, <3>2 DEF Ordered, Entered
  <2>3. CASE UNCHANGED stack
    BY <2>0, <2>1, <2>3, BusesOfEmpty DEF Ordered, StackBuses
  <2> QED BY <1>1, <2>2, <2>3 DEF ScanAllBus
<1>2. CASE ScanHosts
  <2>0. /\ stack = <<>> /\ config' = config /\ devices' = devices /\ host \in Nat /\ host # 0
        /\ ~IsSingleFunctionDevice(ReadHeaderType(config, 0, 0, 0))
    BY <1>2 DEF ScanHosts, Shape, Running, Sound, TypeOK
  <2>1. CASE host < NumFunction /\ Present(config, 0, 0, host) /\ CallScanBus(host)
    <3>1. host \in Bus /\ host \in RootBuses(config)
      BY <2>0, <2>1 DEF Bus, RootBuses, FunctionNo
    <3>2. StackBuses' = {host}
      BY <2>0, <2>1, <3>1, BusesAfterCall, BusesOfEmpty
    <3> QED BY <2>0, <3>1, <3>2, <1>same DEF Ordered, Entered
  <2>2. CASE UNCHANGED stack
    BY <2>0, <2>2, <1>same, BusesOfEmpty DEF Ordered, StackBuses
  <2> QED BY <1>2, <2>1, <2>2 DEF ScanHosts
<1>3. CASE UNCHANGED <<config, devices>> /\ StackBuses' \subseteq StackBuses
  BY <1>3, <1>same DEF Ordered
<1>4. CASE ScanBus \/ ScanDevice \/ NextFunction
  <2>0. stack # <<>> /\ UNCHANGED <<config, devices>>
    BY <1>4 DEF ScanBus, ScanDevice, NextFunction, Shape, Running
  <2>1. \/ UNCHANGED stack
        \/ \E d, f, at : Continue(d, f, at)
    BY <1>4 DEF ScanBus, ScanDevice, NextFunction
  <2>2. CASE UNCHANGED stack
    BY <2>0, <2>2, <1>3 DEF StackBuses
  <2>3. ASSUME NEW d, NEW f, NEW at, Continue(d, f, at) PROVE StackBuses' = StackBuses
    BY <2>0, <2>3, SameBuses DEF Continue, StackBuses, top, TypeOK
  <2> QED BY <2>0, <2>1, <2>2, <2>3, <1>3
<1>5. CASE ScanFunction
  <2>0. /\ stack # <<>> /\ top \in Frame /\ InRange(top) /\ config' = config
        /\ OnBus(config, At(top))
    BY <1>5, TopOfStack DEF ScanFunction, Shape, Running, Sound
  <2>1. CASE UNCHANGED <<devices, stack>>
    BY <2>0, <2>1, <1>3 DEF StackBuses
  <2>2. CASE AddDevice /\ UNCHANGED stack
    BY <2>0, <2>2, OrderedAdd DEF Ordered, StackBuses
  <2>3. CASE /\ AddDevice
             /\ IsBridge(config, top.bus, top.device, top.function)
             /\ CallScanBus(SecondaryBus(config, top.bus, top.device, top.function))
    <3> DEFINE s == SecondaryBus(config, top.bus, top.device, top.function)
    <3>1. s \in Bus
      BY <2>0, Reads DEF TypeOK, InRange, Frame
    <3>2. Leads(config, At(top), s)
      BY <2>0, <2>3 DEF Leads, At
    <3>3. Len(devices') \in 1 .. Len(devices') /\ LocationOf(devices'[Len(devices')]) = At(top)
      BY <2>3, AddDeviceEffect, LengthsNat DEF LocationOf, At
    <3>4. StackBuses' = StackBuses \union {s}
      BY <2>3, <3>1, BusesAfterCall
    <3> HIDE DEF s
    <3>5. Leads(config', LocationOf(devices'[Len(devices')]), s)
      BY <2>0, <3>2, <3>3
    <3>6. \E j \in 1 .. Len(devices') : Leads(config', LocationOf(devices'[j]), s)
      BY <3>3, <3>5
    <3>7. ASSUME NEW b \in StackBuses' PROVE Entered(b)'
      <4>1. CASE b = s
        BY <3>6, <4>1 DEF Entered
      <4>2. CASE b \in StackBuses
        BY <2>0, <2>3, <4>2, OrderedAdd DEF Ordered
      <4> QED BY <3>4, <4>1, <4>2
    <3> QED BY <2>0, <2>3, <3>7, OrderedAdd DEF Ordered
  <2> QED BY <1>5, <2>1, <2>2, <2>3 DEF ScanFunction
<1>6. CASE Return
  <2>1. stack # <<>> /\ UNCHANGED <<config, devices>>
    BY <1>6 DEF Return, Shape, Running
  <2> QED BY <1>3, <1>6, <2>1, BusesAfterReturn
<1>7. CASE UNCHANGED vars
  BY <1>3, <1>7 DEF vars, StackBuses
<1> QED
  BY <1>1, <1>2, <1>4, <1>5, <1>6, <1>7 DEF Next

\* A bridge is in the list before every function of the bus behind it, on any
\* topology: a reader of pci::devices meets no function whose bridge it has
\* not met.
THEOREM BridgesComeFirst == Spec => []BridgeFirst
<1>1. Init => TInv /\ Sound /\ Ordered
  BY TInvInit, SoundInit, OrderedInit
<1>2. TInv /\ Sound /\ Ordered /\ [Next]_vars => (TInv /\ Sound /\ Ordered)'
  BY TInvNext, SoundNext, OrderedNext
<1>3. Ordered => BridgeFirst
  BY DEF Ordered
<1> QED
  BY <1>1, <1>2, <1>3, PTL DEF Spec

-----------------------------------------------------------------------------
(***************************************************************************)
(* The scan ends.  Five numbers, each counting for more than those after   *)
(* it, say how much is left: of ScanAllBus's loop, of the array, of the    *)
(* stack, of the running ScanBus and of its turn.  A loop that goes on     *)
(* brings its number down; a call of ScanBus takes a place in the array,   *)
(* or a turn of ScanAllBus's loop.  StepsLeft makes one number of them.    *)
(***************************************************************************)
\* What is left of ScanAllBus: its loop over the host controllers, 2 for each (one
\* for its test, one for its scan).
HostsLeft ==
  CASE pc = "ScanAllBus" -> 2 * NumFunction + 3
    [] pc = "ScanHosts"  -> 2 * (NumFunction - host) + 2
    [] pc = "Done"       -> 0
    [] OTHER             -> 2 * (NumFunction - host) + 1

RoomLeft == Capacity - Len(devices)

DevicesLeft == IF Running THEN NumDevice - top.device ELSE 0

\* What is left of a turn of ScanBus's loop, 3 for each function.
Calls(at, function) ==
  CASE at = "ScanBus"      -> 3 * NumFunction + 2
    [] at = "ScanFunction" -> 3 * (NumFunction - function) + 1
    [] at = "ScanDevice"   -> 3 * (NumFunction - function)
    [] at = "NextFunction" -> 3 * (NumFunction - function) + 2
    [] OTHER               -> 0

CallsLeft == Calls(pc, top.function)

\* m counts for more than n, which is below base.
Weigh(m, base, n) == m * base + n

StepsLeft ==
  Weigh(Weigh(Weigh(Weigh(HostsLeft, Capacity + 1, RoomLeft),
                    Capacity + 2, Len(stack)),
              NumDevice + 1, DevicesLeft),
        3 * NumFunction + 3, CallsLeft)

Measured ==
  /\ HostsLeft \in Nat
  /\ RoomLeft \in Nat /\ RoomLeft < Capacity + 1
  /\ Len(stack) \in Nat /\ Len(stack) < Capacity + 2
  /\ DevicesLeft \in Nat /\ DevicesLeft < NumDevice + 1
  /\ CallsLeft \in Nat /\ CallsLeft < 3 * NumFunction + 3

LEMMA WeighNat ==
  ASSUME NEW base \in Nat, NEW m \in Nat, NEW n \in Nat
  PROVE  Weigh(m, base, n) \in Nat
<1>1. m * base \in Nat
  OBVIOUS
<1> QED BY <1>1 DEF Weigh

LEMMA WeighLess ==
  ASSUME NEW base \in Nat, NEW m \in Nat, NEW n \in Nat, NEW k \in Nat, NEW j \in Nat,
         j < base, k < m \/ (k = m /\ j < n)
  PROVE  Weigh(k, base, j) < Weigh(m, base, n)
<1>1. m * base \in Nat /\ k * base \in Nat
  OBVIOUS
<1>2. ASSUME k < m PROVE k * base + base <= m * base
  <2> DEFINE d == m - k - 1
  <2>1. d \in Nat /\ m = k + 1 + d
    BY <1>2
  <2> HIDE DEF d
  <2>2. (k + 1 + d) * base = k * base + base + d * base /\ d * base \in Nat
    BY <2>1
  <2> QED BY <1>1, <2>1, <2>2
<1> QED BY <1>1, <1>2 DEF Weigh

LEMMA IsMeasured == TInv /\ DepthBounded => Measured
<1> SUFFICES ASSUME TypeOK, Shape, DepthBounded PROVE Measured
  BY DEF TInv
<1>1. Len(devices) \in Nat /\ Len(stack) \in Nat /\ Len(devices) <= Capacity
  BY LengthsNat DEF TypeOK
<1>2. HostsLeft \in Nat
  BY DEF HostsLeft, TypeOK, ControlPoint, Shape, Running
<1>3. RoomLeft \in Nat /\ RoomLeft < Capacity + 1
  BY <1>1 DEF RoomLeft
<1>4. Len(stack) < Capacity + 2
  BY <1>1 DEF DepthBounded
<1>5. Running => top \in Frame
  BY TopOfStack DEF Shape
<1>6. DevicesLeft \in Nat /\ DevicesLeft < NumDevice + 1
  BY <1>5 DEF DevicesLeft, Frame
<1>7. CallsLeft \in Nat /\ CallsLeft < 3 * NumFunction + 3
  BY <1>5 DEF Calls, CallsLeft, Running, Frame
<1> QED BY <1>1, <1>2, <1>3, <1>4, <1>6, <1>7 DEF Measured

\* What a step brings nearer: the first of these that changes gets less.
Advanced ==
  \/ HostsLeft' < HostsLeft
  \/ /\ HostsLeft' = HostsLeft
     /\ \/ RoomLeft' < RoomLeft
        \/ /\ RoomLeft' = RoomLeft
           /\ \/ Len(stack') < Len(stack)
              \/ /\ Len(stack') = Len(stack)
                 /\ \/ DevicesLeft' < DevicesLeft
                    \/ DevicesLeft' = DevicesLeft /\ CallsLeft' < CallsLeft

LEMMA MeasuredNat == Measured => StepsLeft \in Nat
<1> SUFFICES ASSUME Measured PROVE StepsLeft \in Nat
  OBVIOUS
<1>1. PICK R \in Nat, S \in Nat, D \in Nat, C \in Nat :
        R = Capacity + 1 /\ S = Capacity + 2 /\ D = NumDevice + 1 /\ C = 3 * NumFunction + 3
  OBVIOUS
<1>2. PICK h \in Nat, r \in Nat, s \in Nat, d \in Nat, c \in Nat :
        h = HostsLeft /\ r = RoomLeft /\ s = Len(stack) /\ d = DevicesLeft /\ c = CallsLeft
  BY DEF Measured
<1>3. Weigh(h, R, r) \in Nat
  BY WeighNat
<1>4. Weigh(Weigh(h, R, r), S, s) \in Nat
  BY <1>3, WeighNat
<1>5. Weigh(Weigh(Weigh(h, R, r), S, s), D, d) \in Nat
  BY <1>4, WeighNat
<1>6. Weigh(Weigh(Weigh(Weigh(h, R, r), S, s), D, d), C, c) \in Nat
  BY <1>5, WeighNat
<1> QED BY <1>1, <1>2, <1>6 DEF StepsLeft

LEMMA AdvancedWeighs ==
  ASSUME Measured, Measured', Advanced
  PROVE  StepsLeft' < StepsLeft
<1>1. PICK R \in Nat, S \in Nat, D \in Nat, C \in Nat :
        R = Capacity + 1 /\ S = Capacity + 2 /\ D = NumDevice + 1 /\ C = 3 * NumFunction + 3
  OBVIOUS
<1>2. PICK h \in Nat, r \in Nat, s \in Nat, d \in Nat, c \in Nat :
        h = HostsLeft /\ r = RoomLeft /\ s = Len(stack) /\ d = DevicesLeft /\ c = CallsLeft
  BY DEF Measured
<1>3. PICK h2 \in Nat, r2 \in Nat, s2 \in Nat, d2 \in Nat, c2 \in Nat :
        /\ h2 = HostsLeft' /\ r2 = RoomLeft' /\ s2 = Len(stack')
        /\ d2 = DevicesLeft' /\ c2 = CallsLeft'
        /\ r2 < R /\ s2 < S /\ d2 < D /\ c2 < C
  BY <1>1 DEF Measured
<1>4. \/ h2 < h
      \/ /\ h2 = h
         /\ \/ r2 < r
            \/ r2 = r /\ (s2 < s \/ (s2 = s /\ (d2 < d \/ (d2 = d /\ c2 < c))))
  BY <1>2, <1>3 DEF Advanced
<1> DEFINE x == Weigh(h, R, r)     x2 == Weigh(h2, R, r2)
           y == Weigh(x, S, s)     y2 == Weigh(x2, S, s2)
           z == Weigh(y, D, d)     z2 == Weigh(y2, D, d2)
<1>5. /\ x \in Nat /\ x2 \in Nat
      /\ h2 < h \/ (h2 = h /\ r2 < r) => x2 < x
      /\ h2 = h /\ r2 = r => x2 = x
  BY <1>3, WeighNat, WeighLess
<1> HIDE DEF x, x2
<1>6. /\ y \in Nat /\ y2 \in Nat
      /\ x2 < x \/ (x2 = x /\ s2 < s) => y2 < y
      /\ x2 = x /\ s2 = s => y2 = y
  BY <1>3, <1>5, WeighNat, WeighLess
<1> HIDE DEF y, y2
<1>7. /\ z \in Nat /\ z2 \in Nat
      /\ y2 < y \/ (y2 = y /\ d2 < d) => z2 < z
      /\ y2 = y /\ d2 = d => z2 = z
  BY <1>3, <1>6, WeighNat, WeighLess
<1> HIDE DEF z, z2
<1>8. z2 < z \/ (z2 = z /\ c2 < c)
  BY <1>4, <1>5, <1>6, <1>7
<1>9. Weigh(z2, C, c2) < Weigh(z, C, c)
  BY <1>3, <1>7, <1>8, WeighLess
<1>10. /\ StepsLeft = Weigh(z, C, c)
       /\ StepsLeft' = Weigh(z2, C, c2)
  BY <1>1, <1>2, <1>3 DEF StepsLeft, x, x2, y, y2, z, z2
<1> QED BY <1>9, <1>10

LEMMA StepAdvances ==
  ASSUME TInv, TInv', DepthBounded, Next
  PROVE  Advanced
<1>0. TypeOK /\ Shape
  BY DEF TInv
<1>sub. /\ NumDevice \in Nat /\ NumFunction \in Nat /\ Capacity \in Nat
        /\ 0 \in Bus /\ host \in Nat /\ host <= NumFunction
  BY <1>0 DEF Bus, TypeOK
<1>len. /\ Len(devices) \in Nat /\ Len(devices) <= Capacity
        /\ Len(stack) \in Nat
  BY <1>0, LengthsNat DEF TypeOK
<1>1. CASE ScanAllBus
  <2>1. \/ pc' = "ScanBus" /\ host' = 0
        \/ pc' = "ScanHosts" /\ host' = 1
    BY <1>1 DEF ScanAllBus, CallScanBus
  <2> QED BY <1>1, <1>sub, <2>1 DEF ScanAllBus, Advanced, HostsLeft
<1>2. CASE ScanHosts
  <2>1. \/ pc' = "Done"
        \/ pc' = "ScanHosts" /\ host' = host + 1 /\ host < NumFunction
        \/ pc' = "ScanBus" /\ host' = host
    BY <1>2 DEF ScanHosts, CallScanBus
  <2> QED BY <1>2, <1>sub, <2>1 DEF ScanHosts, Advanced, HostsLeft
<1>3. CASE ScanBus \/ ScanDevice \/ NextFunction
  <2>0. stack # <<>> /\ top \in Frame /\ host' = host /\ devices' = devices
    BY <1>0, <1>3, TopOfStack DEF ScanBus, ScanDevice, NextFunction, Shape, Running
  <2>r. RoomLeft' = RoomLeft
    BY <2>0 DEF RoomLeft
  <2>1. CASE pc' = "Return" /\ UNCHANGED stack
    <3>1. HostsLeft' = HostsLeft
      BY <1>3, <2>0, <2>1 DEF HostsLeft, ScanBus, ScanDevice, NextFunction
    <3>2. DevicesLeft' = DevicesLeft /\ Len(stack') = Len(stack)
      BY <1>3, <2>0, <2>1 DEF DevicesLeft, Running, ScanBus, ScanDevice, NextFunction, top
    <3>3. CallsLeft' = 0 /\ CallsLeft > 0
      <4>1. pc \in {"ScanBus", "ScanDevice", "NextFunction"}
        BY <1>3 DEF ScanBus, ScanDevice, NextFunction
      <4>2. pc = "ScanDevice" => top.function \in Nat /\ top.function < NumFunction
        BY <1>0 DEF Shape, InRange, FunctionNo
      <4> QED BY <1>sub, <2>0, <2>1, <4>1, <4>2 DEF Calls, CallsLeft, Frame
    <3> QED BY <2>r, <3>1, <3>2, <3>3 DEF Advanced
  <2>2. ASSUME NEW d \in 0 .. NumDevice, NEW f \in 0 .. NumFunction, NEW at,
               Continue(d, f, at), at \in {"ScanBus", "ScanFunction", "NextFunction"},
               \/ d > top.device
               \/ d = top.device /\ Calls(at, f) < CallsLeft
        PROVE  Advanced
    <3>1. /\ Len(stack') = Len(stack) /\ pc' = at
          /\ top' = [bus |-> top.bus, device |-> d, function |-> f]
      BY <1>0, <2>0, <2>2, ContinueEffect
    <3>2. HostsLeft' = HostsLeft
      BY <1>3, <2>0, <2>2, <3>1 DEF HostsLeft, ScanBus, ScanDevice, NextFunction
    <3>3. DevicesLeft' = NumDevice - d /\ DevicesLeft = NumDevice - top.device
      BY <1>3, <2>2, <3>1 DEF DevicesLeft, Running, ScanBus, ScanDevice, NextFunction
    <3>4. top.device \in Nat /\ d \in Nat
      BY <2>0 DEF Frame
    <3>5. CallsLeft' = Calls(at, f)
      BY <3>1 DEF CallsLeft
    <3>6. \/ DevicesLeft' < DevicesLeft
          \/ DevicesLeft' = DevicesLeft /\ CallsLeft' < CallsLeft
      BY <1>sub, <2>2, <3>3, <3>4, <3>5
    <3> QED BY <2>r, <3>1, <3>2, <3>6 DEF Advanced
  <2>3. top.device \in 0 .. NumDevice /\ top.function \in 0 .. NumFunction
    BY <2>0 DEF Frame
  <2>4. /\ pc \in {"ScanDevice", "NextFunction"} => top.device < NumDevice
        /\ pc = "ScanDevice" => top.function < NumFunction
    BY <1>0 DEF Shape, InRange, DeviceNo, FunctionNo
  <2>5. CASE top.device < NumDevice /\ Continue(top.device + 1, 0, "ScanBus")
    <3>1. top.device + 1 \in 0 .. NumDevice /\ top.device + 1 > top.device /\ 0 \in 0 .. NumFunction
      BY <1>sub, <2>3, <2>5
    <3> QED BY <3>1, <2>2, <2>5
  <2>6. CASE pc = "ScanBus" /\ Continue(top.device, 0, "ScanFunction")
    <3>1. Calls("ScanFunction", 0) < CallsLeft /\ 0 \in 0 .. NumFunction
      BY <1>sub, <2>6 DEF Calls, CallsLeft
    <3> QED BY <3>1, <2>2, <2>3, <2>6
  <2>7. CASE pc = "ScanDevice" /\ Continue(top.device, top.function + 1, "NextFunction")
    <3>1. /\ Calls("NextFunction", top.function + 1) < CallsLeft
          /\ top.function + 1 \in 0 .. NumFunction
      BY <1>sub, <2>3, <2>4, <2>7 DEF Calls, CallsLeft
    <3> QED BY <3>1, <2>2, <2>3, <2>7
  <2>8. CASE /\ pc = "NextFunction" /\ top.function < NumFunction
             /\ Continue(top.device, top.function + 1, "NextFunction")
    <3>1. /\ Calls("NextFunction", top.function + 1) < CallsLeft
          /\ top.function + 1 \in 0 .. NumFunction
      BY <1>sub, <2>3, <2>8 DEF Calls, CallsLeft
    <3> QED BY <3>1, <2>2, <2>3, <2>8
  <2>9. CASE pc = "NextFunction" /\ Continue(top.device, top.function, "ScanFunction")
    <3>1. Calls("ScanFunction", top.function) < CallsLeft
      BY <1>sub, <2>3, <2>9 DEF Calls, CallsLeft
    <3> QED BY <3>1, <2>2, <2>3, <2>9
  <2>10. CASE ScanBus
    BY <2>10, <2>1, <2>5, <2>6 DEF ScanBus
  <2>11. CASE ScanDevice
    BY <2>11, <2>1, <2>4, <2>5, <2>7 DEF ScanDevice
  <2>12. CASE NextFunction
    BY <2>12, <2>4, <2>5, <2>8, <2>9 DEF NextFunction
  <2> QED BY <1>3, <2>10, <2>11, <2>12
<1>4. CASE ScanFunction
  <2>0. stack # <<>> /\ top \in Frame /\ host' = host /\ InRange(top)
    BY <1>0, <1>4, TopOfStack DEF ScanFunction, Shape, Running
  <2>1. pc' \in {"ScanDevice", "ScanBus"}
    BY <1>4 DEF ScanFunction, CallScanBus
  <2>2. HostsLeft' = HostsLeft
    BY <1>4, <2>0, <2>1 DEF HostsLeft, ScanFunction
  <2>3. CASE AddDevice
    <3>1. RoomLeft' < RoomLeft
      BY <1>0, <1>len, <1>sub, <2>3, AddDeviceEffect DEF RoomLeft
    <3> QED BY <2>2, <3>1 DEF Advanced
  <2>4. CASE UNCHANGED <<devices, stack>> /\ pc' = "ScanDevice"
    <3>1. RoomLeft' = RoomLeft /\ Len(stack') = Len(stack)
      BY <2>4 DEF RoomLeft
    <3>2. DevicesLeft' = DevicesLeft
      BY <1>4, <2>4 DEF DevicesLeft, Running, ScanFunction, top
    <3>3. CallsLeft' < CallsLeft
      <4>1. top' = top /\ top.function \in Nat
        BY <2>0, <2>4 DEF top, Frame
      <4> QED BY <1>4, <1>sub, <2>4, <4>1 DEF Calls, CallsLeft, ScanFunction
    <3> QED BY <2>2, <3>1, <3>2, <3>3 DEF Advanced
  <2> QED BY <1>4, <2>3, <2>4 DEF ScanFunction
<1>5. CASE Return
  <2>0. stack # <<>>
    BY <1>0, <1>5 DEF Return, Shape, Running
  <2>1. Len(stack') = Len(stack) - 1
    BY <1>0, <1>5, <2>0, ReturnEffect
  <2>2. CASE pc' = "ScanDevice" /\ UNCHANGED host
    <3>1. HostsLeft' = HostsLeft /\ RoomLeft' = RoomLeft
      BY <1>5, <2>2 DEF HostsLeft, RoomLeft, Return
    <3> QED BY <1>len, <2>1, <3>1 DEF Advanced
  <2>3. CASE pc' = "Done"
    BY <1>5, <1>sub, <2>3 DEF HostsLeft, Return, Advanced
  <2>4. CASE pc' = "ScanHosts" /\ host' = host + 1
    BY <1>5, <1>sub, <2>4 DEF HostsLeft, Return, Advanced
  <2> QED BY <1>5, <2>2, <2>3, <2>4 DEF Return
<1> QED BY <1>1, <1>2, <1>3, <1>4, <1>5 DEF Next

\* However the bridges are laid out, cycles included, every step of the scan counts down a
\* number that is at most StepsLeft of the start: the scan takes no more steps than that.
THEOREM ScanCountsDown == Spec => [](StepsLeft \in Nat) /\ [][StepsLeft' < StepsLeft]_vars
<1> DEFINE I == TInv /\ DepthBounded
<1>1. Init => I
  BY TInvInit, DepthAndFullInit
<1>2. I /\ [Next]_vars => I'
  BY TInvNext, DepthNext
<1>3. I => Measured
  BY IsMeasured
<1>4. Measured => StepsLeft \in Nat
  BY MeasuredNat
<1>5. I /\ I' /\ Measured /\ Measured' /\ [Next]_vars => [StepsLeft' < StepsLeft]_vars
  BY StepAdvances, AdvancedWeighs
<1> QED BY <1>1, <1>2, <1>3, <1>4, <1>5, PTL DEF Spec

-----------------------------------------------------------------------------
(***************************************************************************)
(* Completeness.  When ScanAllBus returns kSuccess, PciScan has listed     *)
(* every function there is to see, on any topology.                        *)
(*                                                                         *)
(* The argument is that of a depth-first search.  A bus is covered when    *)
(* all its functions are listed; a running chain has listed the part of    *)
(* its bus that lies behind its loop variables; a bus that a root or a     *)
(* listed bridge asks for is covered, being scanned, or (a root) still to  *)
(* come.  When the stack is empty and no root is left, the covered buses   *)
(* are closed, so the least closed set, ReachableBuses, is within them.    *)
(***************************************************************************)
Covered(c, L, bus) ==
  \A loc \in Location : loc[1] = bus /\ OnBus(c, loc) => loc \in L

\* The loops of the chain r have passed loc.
Behind(loc, r) == loc[2] < r.device \/ (loc[2] = r.device /\ loc[3] < r.function)

Scanned(c, L, r) ==
  \A loc \in Location : loc[1] = r.bus /\ OnBus(c, loc) /\ Behind(loc, r) => loc \in L

Chain(bus, device, function) == [bus |-> bus, device |-> device, function |-> function]

-----------------------------------------------------------------------------
(***************************************************************************)
(* How the loops advance what has been scanned of a bus.                   *)
(***************************************************************************)
LEMMA LocationParts ==
  ASSUME NEW loc \in Location
  PROVE  /\ loc[1] \in Bus /\ loc[2] \in DeviceNo /\ loc[3] \in FunctionNo
         /\ loc = <<loc[1], loc[2], loc[3]>>
         /\ loc[2] \in Nat /\ loc[2] < NumDevice
         /\ loc[3] \in Nat /\ loc[3] < NumFunction
  BY DEF Location, DeviceNo, FunctionNo

LEMMA FrameParts ==
  ASSUME NEW r \in Frame
  PROVE  /\ r.bus \in Bus
         /\ r.device \in Nat /\ r.device <= NumDevice
         /\ r.function \in Nat /\ r.function <= NumFunction
  BY DEF Frame

\* Listing more loses nothing.
LEMMA ScannedMono ==
  ASSUME NEW c, NEW L, NEW M, L \subseteq M
  PROVE  /\ \A r : Scanned(c, L, r) => Scanned(c, M, r)
         /\ \A b : Covered(c, L, b) => Covered(c, M, b)
  BY DEF Scanned, Covered

\* A call of ScanBus starts with nothing behind it.
LEMMA ScannedNew ==
  ASSUME NEW c, NEW L, NEW b
  PROVE  Scanned(c, L, Chain(b, 0, 0))
  BY LocationParts DEF Scanned, Behind, Chain

\* An empty slot is passed (pci.cc:76-78).
LEMMA ScannedEmptySlot ==
  ASSUME NEW c, NEW L, NEW r \in Frame, Scanned(c, L, r),
         ~Present(c, r.bus, r.device, 0)
  PROVE  Scanned(c, L, Chain(r.bus, r.device + 1, 0))
<1> SUFFICES ASSUME NEW loc \in Location, loc[1] = r.bus, OnBus(c, loc),
                    Behind(loc, Chain(r.bus, r.device + 1, 0))
             PROVE  loc \in L
  BY DEF Scanned, Chain
<1>1. loc[2] <= r.device
  BY LocationParts, FrameParts DEF Behind, Chain
<1>2. loc[2] # r.device
  BY DEF OnBus
<1>3. loc[2] < r.device
  BY <1>1, <1>2, LocationParts, FrameParts
<1> QED
  BY <1>3 DEF Scanned, Behind

\* A slot that answers is entered at function 0.
LEMMA ScannedEnter ==
  ASSUME NEW c, NEW L, NEW r \in Frame, Scanned(c, L, r)
  PROVE  Scanned(c, L, Chain(r.bus, r.device, 0))
<1> SUFFICES ASSUME NEW loc \in Location, loc[1] = r.bus, OnBus(c, loc),
                    Behind(loc, Chain(r.bus, r.device, 0))
             PROVE  loc \in L
  BY DEF Scanned, Chain
<1>1. loc[2] < r.device
  BY LocationParts DEF Behind, Chain
<1> QED
  BY <1>1 DEF Scanned, Behind

\* A function that is listed, or is not there, is passed (pci.cc:60-68).
LEMMA ScannedNextFunction ==
  ASSUME NEW c, NEW L, NEW r \in Frame, Scanned(c, L, r),
         At(r) \in L \/ ~Present(c, r.bus, r.device, r.function)
  PROVE  Scanned(c, L, Chain(r.bus, r.device, r.function + 1))
<1> SUFFICES ASSUME NEW loc \in Location, loc[1] = r.bus, OnBus(c, loc),
                    Behind(loc, Chain(r.bus, r.device, r.function + 1))
             PROVE  loc \in L
  BY DEF Scanned, Chain
<1>1. CASE loc[2] = r.device /\ loc[3] = r.function
  <2>1. loc = At(r)
    BY <1>1, LocationParts DEF At
  <2>2. Present(c, r.bus, r.device, r.function)
    BY <1>1 DEF OnBus
  <2> QED BY <2>1, <2>2
<1>2. CASE ~(loc[2] = r.device /\ loc[3] = r.function)
  <2>1. Behind(loc, r)
    BY <1>2, LocationParts, FrameParts DEF Behind, Chain
  <2> QED BY <2>1 DEF Scanned
<1> QED BY <1>1, <1>2

\* After the last function the device is passed.
LEMMA ScannedDevice ==
  ASSUME NEW c, NEW L, NEW r \in Frame, Scanned(c, L, r), r.function >= NumFunction
  PROVE  Scanned(c, L, Chain(r.bus, r.device + 1, 0))
<1> SUFFICES ASSUME NEW loc \in Location, loc[1] = r.bus, OnBus(c, loc),
                    Behind(loc, Chain(r.bus, r.device + 1, 0))
             PROVE  loc \in L
  BY DEF Scanned, Chain
<1>1. Behind(loc, r)
  BY LocationParts, FrameParts DEF Behind, Chain
<1> QED
  BY <1>1 DEF Scanned

\* Function 0 of a single-function device is all of it (pci.cc:57-59).
LEMMA ScannedSingle ==
  ASSUME NEW c, NEW L, NEW r \in Frame, Scanned(c, L, r), At(r) \in L,
         r.function = 0, ~ReadHeaderType(c, r.bus, r.device, 0)
  PROVE  Scanned(c, L, Chain(r.bus, r.device + 1, 0))
<1> SUFFICES ASSUME NEW loc \in Location, loc[1] = r.bus, OnBus(c, loc),
                    Behind(loc, Chain(r.bus, r.device + 1, 0))
             PROVE  loc \in L
  BY DEF Scanned, Chain
<1>1. CASE loc[2] = r.device
  <2>1. loc[3] = 0
    BY <1>1 DEF OnBus
  <2>2. loc = At(r)
    BY <1>1, <2>1, LocationParts DEF At
  <2> QED BY <2>2
<1>2. CASE loc[2] # r.device
  <2>1. loc[2] < r.device
    BY <1>2, LocationParts, FrameParts DEF Behind, Chain
  <2> QED BY <2>1 DEF Scanned, Behind
<1> QED BY <1>1, <1>2

\* After the last device the bus is covered.
LEMMA ScannedBus ==
  ASSUME NEW c, NEW L, NEW r \in Frame, Scanned(c, L, r), r.device = NumDevice
  PROVE  Covered(c, L, r.bus)
  BY LocationParts DEF Scanned, Covered, Behind
-----------------------------------------------------------------------------
(***************************************************************************)
(* The invariant.                                                          *)
(***************************************************************************)

\* ScanAllBus has not come to this root yet.
Pending(bus) ==
  \/ pc = "ScanAllBus"
  \/ host # 0 /\ bus > host
  \/ pc = "ScanHosts" /\ bus >= host

Chains ==
  /\ \A k \in 1 .. Len(stack) : Scanned(config, Listed, stack[k])
  /\ \A k \in 1 .. Len(stack) - 1 : At(stack[k]) \in Listed
  /\ pc = "ScanDevice" => At(top) \in Listed
  /\ pc = "Return" => top.device = NumDevice

\* Every bus that is asked for is covered, or being scanned, or still to come.
Asked ==
  /\ \A loc \in Listed, b \in Bus :
       Leads(config, loc, b) => Covered(config, Listed, b) \/ b \in StackBuses
  /\ \A b \in RootBuses(config) :
       Covered(config, Listed, b) \/ b \in StackBuses \/ Pending(b)
  /\ pc = "Done" => host = 0 \/ host = NumFunction

Complete == err = "kSuccess" => Chains /\ Asked

LEMMA CompleteInit == Init => Complete
<1> SUFFICES ASSUME Init PROVE Complete
  OBVIOUS
<1>1. Len(stack) = 0 /\ Listed = {}
  BY EmptySeq DEF Init, Listed
<1> QED
  BY <1>1 DEF Init, Complete, Chains, Asked, Pending

LEMMA TopScanned ==
  ASSUME TypeOK, Chains, stack # <<>>
  PROVE  Scanned(config, Listed, top)
<1>1. Len(stack) \in 1 .. Len(stack)
  BY TopOfStack
<1> QED
  BY <1>1 DEF Chains, top

\* A loop that goes on keeps the invariant when the part of the bus it has
\* passed is listed.
LEMMA CompleteContinue ==
  ASSUME TypeOK, stack # <<>>, Chains, Asked, pc # "ScanHosts", pc # "ScanAllBus",
         NEW d \in 0 .. NumDevice, NEW f \in 0 .. NumFunction,
         NEW at \in {"ScanBus", "ScanFunction", "NextFunction"},
         Continue(d, f, at), UNCHANGED <<config, devices, host>>,
         Scanned(config, Listed, Chain(top.bus, d, f))
  PROVE  Chains' /\ Asked'
<1>1. /\ Len(stack) \in Nat \ {0} /\ Len(stack') = Len(stack)
      /\ top' = Chain(top.bus, d, f)
      /\ \A k \in 1 .. Len(stack) - 1 : stack'[k] = stack[k]
      /\ pc' = at
  BY ContinueEffect DEF Chain
<1>2. StackBuses' = StackBuses /\ Listed' = Listed /\ config' = config /\ host' = host
  BY BusesAfterContinue DEF Listed
<1>3. ASSUME NEW k \in 1 .. Len(stack') PROVE Scanned(config', Listed', stack'[k])
  <2>1. CASE k = Len(stack)
    <3>1. stack'[k] = Chain(top.bus, d, f)
      BY <1>1, <2>1 DEF top
    <3> QED BY <1>2, <3>1
  <2>2. CASE k # Len(stack)
    <3>1. k \in 1 .. Len(stack) - 1 /\ k \in 1 .. Len(stack)
      BY <1>1, <2>2
    <3> QED BY <1>1, <1>2, <3>1 DEF Chains
  <2> QED BY <2>1, <2>2
<1>4. \A k \in 1 .. Len(stack') - 1 : At(stack'[k]) \in Listed'
  BY <1>1, <1>2 DEF Chains
<1>5. Chains'
  BY <1>1, <1>3, <1>4 DEF Chains
<1>6. \A b : Pending(b) => Pending(b)'
  BY <1>2 DEF Pending
<1>7. Asked'
  BY <1>1, <1>2, <1>6 DEF Asked
<1> QED
  BY <1>5, <1>7

\* So does a call of ScanBus, and it takes care of the bus it is called for.
LEMMA CompleteCall ==
  ASSUME TypeOK, Chains, NEW b \in Bus, CallScanBus(b), config' = config,
         Listed \subseteq Listed',
         stack # <<>> => At(top) \in Listed'
  PROVE  /\ Chains'
         /\ StackBuses' = StackBuses \union {b}
         /\ pc' = "ScanBus"
<1>1. /\ Len(stack) \in Nat /\ Len(stack') = Len(stack) + 1
      /\ top' = Chain(b, 0, 0)
      /\ \A k \in 1 .. Len(stack) : stack'[k] = stack[k]
      /\ pc' = "ScanBus"
  BY CallEffect DEF Chain
<1>2. ASSUME NEW k \in 1 .. Len(stack') PROVE Scanned(config', Listed', stack'[k])
  <2>1. CASE k = Len(stack')
    <3>1. stack'[k] = Chain(b, 0, 0)
      BY <1>1, <2>1 DEF top
    <3> QED BY <3>1, ScannedNew
  <2>2. CASE k # Len(stack')
    <3>1. k \in 1 .. Len(stack)
      BY <1>1, <2>2
    <3>2. Scanned(config, Listed, stack[k])
      BY <3>1 DEF Chains
    <3>3. Scanned(config, Listed', stack[k])
      BY <3>2, ScannedMono
    <3> QED BY <1>1, <3>1, <3>3
  <2> QED BY <2>1, <2>2
<1>3. ASSUME NEW k \in 1 .. Len(stack') - 1 PROVE At(stack'[k]) \in Listed'
  <2>1. k \in 1 .. Len(stack) /\ stack'[k] = stack[k]
    BY <1>1
  <2>2. CASE k = Len(stack)
    <3>1. stack # <<>>
      BY <1>1, <2>1, EmptySeq
    <3> QED BY <2>1, <2>2, <3>1 DEF top
  <2>3. CASE k # Len(stack)
    <3>1. k \in 1 .. Len(stack) - 1
      BY <1>1, <2>1, <2>3
    <3> QED BY <2>1, <3>1 DEF Chains
  <2> QED BY <2>2, <2>3
<1>4. Chains'
  BY <1>1, <1>2, <1>3 DEF Chains
<1> QED
  BY <1>1, <1>4, BusesAfterCall
LEMMA CompleteNext ==
  ASSUME TInv, Sound, FullInv, Complete, [Next]_vars, err' = "kSuccess"
  PROVE  Chains' /\ Asked'
<1>0. TypeOK /\ Shape
  BY DEF TInv
<1>ok. CASE err = "kSuccess"
  <2>0. Chains /\ Asked
    BY <1>ok DEF Complete
  <2>1. CASE ScanAllBus
    <3>0. stack = <<>> /\ Len(stack) = 0 /\ config' = config /\ Listed' = {}
      BY <1>0, <2>1, EmptySeq DEF ScanAllBus, Shape, Running, Listed
    <3>1. CASE IsSingleFunctionDevice(ReadHeaderType(config, 0, 0, 0)) /\ CallScanBus(0)
      <4>1. 0 \in Bus
        BY DEF Bus
      <4>2. Len(stack') = 1 /\ top' = Chain(0, 0, 0) /\ pc' = "ScanBus" /\ StackBuses' = {0}
        BY <1>0, <3>0, <3>1, <4>1, CallEffect, BusesAfterCall, BusesOfEmpty DEF Chain
      <4>3. \A k \in 1 .. Len(stack') : stack'[k] = Chain(0, 0, 0)
        BY <4>2 DEF top
      <4>4. Chains'
        BY <4>2, <4>3, ScannedNew DEF Chains
      <4>5. RootBuses(config') = {0}
        BY <3>0, <3>1 DEF RootBuses
      <4> QED BY <3>0, <4>2, <4>4, <4>5 DEF Asked
    <3>2. CASE /\ ~IsSingleFunctionDevice(ReadHeaderType(config, 0, 0, 0))
               /\ pc' = "ScanHosts" /\ host' = 1 /\ UNCHANGED stack
      <4>1. \A b \in RootBuses(config') : b >= 1
        BY <3>0, <3>2 DEF RootBuses, FunctionNo
      <4>2. Chains'
        BY <3>0, <3>2 DEF Chains
      <4> QED BY <3>0, <3>2, <4>1, <4>2 DEF Asked, Pending
    <3> QED BY <2>1, <3>1, <3>2 DEF ScanAllBus
  <2>2. CASE ScanHosts
    <3>0. /\ stack = <<>> /\ Len(stack) = 0 /\ StackBuses = {} /\ config' = config
          /\ Listed' = Listed /\ host \in 0 .. NumFunction /\ host # 0 /\ pc = "ScanHosts"
          /\ RootBuses(config) = {f \in FunctionNo \ {0} : Present(config, 0, 0, f)}
      BY <1>0, <2>2, EmptySeq, BusesOfEmpty
      DEF ScanHosts, Shape, Running, Listed, Sound, TypeOK, RootBuses
    <3>1. CASE host >= NumFunction /\ pc' = "Done" /\ UNCHANGED <<stack, host>>
      <4>1. \A b \in RootBuses(config) : ~Pending(b)
        BY <3>0, <3>1 DEF Pending, FunctionNo
      <4>2. Chains' /\ host' = NumFunction /\ pc' = "Done"
        BY <3>0, <3>1 DEF Chains
      <4> QED BY <2>0, <3>0, <4>1, <4>2 DEF Asked
    <3>2. CASE /\ ~Present(config, 0, 0, host)
               /\ host' = host + 1 /\ UNCHANGED <<stack, pc>>
      <4>1. ASSUME NEW b \in RootBuses(config), Pending(b) PROVE Pending(b)'
        <5>1. b \in Nat /\ b # host /\ b >= host
          BY <3>0, <3>2, <4>1 DEF Pending, FunctionNo
        <5> QED BY <3>0, <3>2, <5>1 DEF Pending
      <4>2. Chains' /\ pc' = "ScanHosts" /\ StackBuses' = StackBuses
        BY <3>0, <3>2 DEF Chains, StackBuses
      <4> QED BY <2>0, <3>0, <4>1, <4>2 DEF Asked
    <3>3. CASE host < NumFunction /\ CallScanBus(host) /\ UNCHANGED host
      <4>1. host \in Bus
        BY <3>0, <3>3 DEF Bus
      <4>2. Chains' /\ StackBuses' = {host} /\ pc' = "ScanBus"
        BY <1>0, <2>0, <3>0, <3>3, <4>1, CompleteCall
      <4>3. ASSUME NEW b \in RootBuses(config), Pending(b)
            PROVE  b \in StackBuses' \/ Pending(b)'
        <5>1. b \in Nat /\ b >= host
          BY <3>0, <4>3 DEF Pending, FunctionNo
        <5> QED BY <3>0, <3>3, <4>2, <5>1 DEF Pending
      <4> QED BY <2>0, <3>0, <4>2, <4>3 DEF Asked
    <3> QED BY <2>2, <3>1, <3>2, <3>3 DEF ScanHosts
  <2>3. CASE ScanBus
    <3>0. /\ stack # <<>> /\ top \in Frame /\ UNCHANGED <<config, devices, host>>
          /\ pc = "ScanBus" /\ Scanned(config, Listed, top) /\ Listed' = Listed
      BY <1>0, <2>0, <2>3, TopOfStack, TopScanned DEF ScanBus, Shape, Running, Listed
    <3>1. CASE top.device >= NumDevice /\ pc' = "Return" /\ UNCHANGED stack
      <4>1. top'.device = NumDevice
        BY <3>0, <3>1, FrameParts DEF top
      <4>2. Chains' /\ StackBuses' = StackBuses
        BY <2>0, <3>0, <3>1, <4>1 DEF Chains, StackBuses
      <4> QED BY <2>0, <3>0, <3>1, <4>2 DEF Asked, Pending
    <3>2. CASE /\ top.device < NumDevice /\ ~Present(config, top.bus, top.device, 0)
               /\ Continue(top.device + 1, 0, "ScanBus")
      <4>1. top.device + 1 \in 0 .. NumDevice
        BY <3>0, <3>2, FrameParts
      <4>2. Scanned(config, Listed, Chain(top.bus, top.device + 1, 0))
        BY <3>0, <3>2, ScannedEmptySlot
      <4> QED BY <1>0, <2>0, <3>0, <3>2, <4>1, <4>2, CompleteContinue
    <3>3. CASE Continue(top.device, 0, "ScanFunction")
      <4>1. top.device \in 0 .. NumDevice
        BY <3>0, FrameParts
      <4>2. Scanned(config, Listed, Chain(top.bus, top.device, 0))
        BY <3>0, ScannedEnter
      <4> QED BY <1>0, <2>0, <3>0, <3>3, <4>1, <4>2, CompleteContinue
    <3> QED BY <2>3, <3>1, <3>2, <3>3 DEF ScanBus
  <2>4. CASE ScanFunction
    <3>0. /\ stack # <<>> /\ top \in Frame /\ InRange(top) /\ UNCHANGED <<config, host>>
          /\ pc = "ScanFunction" /\ AddDevice
      BY <1>0, <2>4, TopOfStack DEF ScanFunction, Shape, Running
    <3>1. Listed' = Listed \union {At(top)}
      BY <1>0, <3>0, ListedAfterAdd
    <3>2. \A b : /\ Covered(config, Listed, b) => Covered(config, Listed', b)
                 /\ Pending(b) => Pending(b)'
      BY <3>0, <3>1, ScannedMono DEF Pending
    <3>3. CASE /\ ~IsBridge(config, top.bus, top.device, top.function)
               /\ pc' = "ScanDevice" /\ UNCHANGED stack
      <4>1. \A b \in Bus : ~Leads(config, At(top), b)
        BY <3>3 DEF Leads, At
      <4>2. StackBuses' = StackBuses /\ top' = top
        BY <3>3 DEF StackBuses, top
      <4>3. Chains'
        BY <2>0, <3>0, <3>1, <3>3, <4>2, ScannedMono DEF Chains
      <4> QED BY <2>0, <3>0, <3>1, <3>2, <3>3, <4>1, <4>2, <4>3 DEF Asked
    <3>4. CASE CallScanBus(SecondaryBus(config, top.bus, top.device, top.function))
      <4> DEFINE s == SecondaryBus(config, top.bus, top.device, top.function)
      <4>1. s \in Bus
        BY <1>0, <3>0, FrameParts, Reads DEF TypeOK, InRange
      <4>2. \A b \in Bus : Leads(config, At(top), b) => b = s
        BY DEF Leads, At
      <4>3. CallScanBus(s)
        BY <3>4
      <4> HIDE DEF s
      <4>4. Chains' /\ StackBuses' = StackBuses \union {s} /\ pc' = "ScanBus"
        BY <1>0, <2>0, <3>0, <3>1, <4>1, <4>3, CompleteCall
      <4> QED BY <2>0, <3>0, <3>1, <3>2, <4>2, <4>4 DEF Asked
    <3> QED BY <1>ok, <2>4, <3>3, <3>4 DEF ScanFunction
  <2>5. CASE ScanDevice
    <3>0. /\ stack # <<>> /\ top \in Frame /\ InRange(top)
          /\ UNCHANGED <<config, devices, host>>
          /\ pc = "ScanDevice" /\ Scanned(config, Listed, top) /\ At(top) \in Listed
      BY <1>0, <2>0, <2>5, TopOfStack, TopScanned DEF ScanDevice, Shape, Running, Chains
    <3>1. CASE /\ top.function = 0
               /\ IsSingleFunctionDevice(ReadHeaderType(config, top.bus, top.device, 0))
               /\ Continue(top.device + 1, 0, "ScanBus")
      <4>1. top.device + 1 \in 0 .. NumDevice
        BY <3>0 DEF InRange, DeviceNo
      <4>2. Scanned(config, Listed, Chain(top.bus, top.device + 1, 0))
        BY <3>0, <3>1, ScannedSingle DEF IsSingleFunctionDevice
      <4> QED BY <1>0, <2>0, <3>0, <3>1, <4>1, <4>2, CompleteContinue
    <3>2. CASE Continue(top.device, top.function + 1, "NextFunction")
      <4>1. top.device \in 0 .. NumDevice /\ top.function + 1 \in 0 .. NumFunction
        BY <3>0 DEF InRange, DeviceNo, FunctionNo
      <4>2. Scanned(config, Listed, Chain(top.bus, top.device, top.function + 1))
        BY <3>0, ScannedNextFunction
      <4> QED BY <1>0, <2>0, <3>0, <3>2, <4>1, <4>2, CompleteContinue
    <3> QED BY <1>ok, <2>5, <3>1, <3>2 DEF ScanDevice
  <2>6. CASE NextFunction
    <3>0. /\ stack # <<>> /\ top \in Frame /\ top.device \in DeviceNo
          /\ UNCHANGED <<config, devices, host>>
          /\ pc = "NextFunction" /\ Scanned(config, Listed, top)
      BY <1>0, <2>0, <2>6, TopOfStack, TopScanned DEF NextFunction, Shape, Running
    <3>1. CASE top.function >= NumFunction /\ Continue(top.device + 1, 0, "ScanBus")
      <4>1. top.device + 1 \in 0 .. NumDevice
        BY <3>0 DEF DeviceNo
      <4>2. Scanned(config, Listed, Chain(top.bus, top.device + 1, 0))
        BY <3>0, <3>1, ScannedDevice
      <4> QED BY <1>0, <2>0, <3>0, <3>1, <4>1, <4>2, CompleteContinue
    <3>2. CASE /\ top.function < NumFunction
               /\ ~Present(config, top.bus, top.device, top.function)
               /\ Continue(top.device, top.function + 1, "NextFunction")
      <4>1. top.device \in 0 .. NumDevice /\ top.function + 1 \in 0 .. NumFunction
        BY <3>0, <3>2, FrameParts
      <4>2. Scanned(config, Listed, Chain(top.bus, top.device, top.function + 1))
        BY <3>0, <3>2, ScannedNextFunction
      <4> QED BY <1>0, <2>0, <3>0, <3>2, <4>1, <4>2, CompleteContinue
    <3>3. CASE Continue(top.device, top.function, "ScanFunction")
      <4>1. top.device \in 0 .. NumDevice /\ top.function \in 0 .. NumFunction
        BY <3>0, FrameParts
      <4>2. Scanned(config, Listed, Chain(top.bus, top.device, top.function))
        BY <3>0 DEF Scanned, Behind, Chain
      <4> QED BY <1>0, <2>0, <3>0, <3>3, <4>1, <4>2, CompleteContinue
    <3> QED BY <2>6, <3>1, <3>2, <3>3 DEF NextFunction
  <2>7. CASE Return
    <3>0. /\ stack # <<>> /\ top \in Frame /\ config' = config /\ Listed' = Listed
          /\ pc = "Return" /\ host \in 0 .. NumFunction /\ host < NumFunction
          /\ Scanned(config, Listed, top) /\ top.device = NumDevice
      BY <1>0, <2>0, <2>7, TopOfStack, TopScanned
      DEF Return, Shape, Running, Listed, TypeOK, Chains
    <3>1. Covered(config, Listed, top.bus)
      BY <3>0, ScannedBus
    <3>2. /\ Len(stack) \in Nat \ {0} /\ Len(stack') = Len(stack) - 1
          /\ \A k \in 1 .. Len(stack) - 1 : stack'[k] = stack[k]
          /\ StackBuses \subseteq StackBuses' \union {top.bus}
      BY <1>0, <2>7, <3>0, ReturnEffect, BusesAfterReturn
    <3>3. \A k \in 1 .. Len(stack') :
            Scanned(config, Listed, stack'[k]) /\ At(stack'[k]) \in Listed
      BY <2>0, <3>2 DEF Chains
    <3>4. pc' = "ScanDevice" => Len(stack') \in 1 .. Len(stack')
      BY <2>7, <3>2 DEF Return
    <3>5. pc' \in {"ScanDevice", "Done", "ScanHosts"}
      BY <2>7 DEF Return
    <3>6. \A k \in 1 .. Len(stack') - 1 : k \in 1 .. Len(stack')
      BY <3>2
    <3>7. Chains'
      BY <3>0, <3>3, <3>4, <3>5, <3>6 DEF Chains, top
    <3>8. ASSUME NEW b \in RootBuses(config), Pending(b) PROVE Pending(b)'
      <4>1. b \in Nat /\ host # 0 /\ b > host
        BY <3>0, <3>8 DEF Pending, RootBuses, FunctionNo
      <4> QED BY <2>7, <3>0, <4>1 DEF Return, Pending
    <3>9. pc' = "Done" => host' = 0
      BY <1>ok, <2>7 DEF Return
    <3> QED BY <2>0, <3>0, <3>1, <3>2, <3>5, <3>7, <3>8, <3>9 DEF Asked
  <2>8. CASE UNCHANGED vars
    <3>1. UNCHANGED <<config, devices, stack, host, pc, err>>
      BY <2>8 DEF vars
    <3>2. Listed' = Listed /\ StackBuses' = StackBuses /\ top' = top
      BY <3>1 DEF Listed, StackBuses, top
    <3>3. \A b : Pending(b)' <=> Pending(b)
      BY <3>1 DEF Pending
    <3>4. Chains'
      BY <2>0, <3>1, <3>2 DEF Chains
    <3>5. Asked'
      BY <2>0, <3>1, <3>2, <3>3 DEF Asked
    <3> QED BY <3>4, <3>5
  <2> QED
    BY <2>1, <2>2, <2>3, <2>4, <2>5, <2>6, <2>7, <2>8 DEF Next
<1>bad. CASE err # "kSuccess"
  <2>1. err = "kFull"
    BY <1>0, <1>bad DEF TypeOK, Error
  <2>2. FullInv'
    BY FullNext
  <2> QED BY <1>0, <1>bad, <2>1 DEF Next, ScanAllBus, ScanHosts, ScanBus, ScanFunction,
       ScanDevice, NextFunction, Return, vars, FullInv
<1> QED
  BY <1>ok, <1>bad

LEMMA CompleteDone ==
  ASSUME TInv, Sound, Complete
  PROVE  SuccessMeansAll
<1> SUFFICES ASSUME pc = "Done", err = "kSuccess" PROVE Visible(config) \subseteq Listed
  BY DEF SuccessMeansAll
<1> DEFINE S == {b \in Bus : Covered(config, Listed, b)}
<1>0. TypeOK /\ Shape /\ Asked
  BY DEF TInv, Complete
<1>1. StackBuses = {}
  BY <1>0, BusesOfEmpty DEF Shape, Running
<1>2. RootBuses(config) \subseteq S
  <2>1. \A b \in RootBuses(config) : ~Pending(b)
    BY <1>0 DEF Asked, Pending, RootBuses, FunctionNo
  <2>2. RootBuses(config) \subseteq Bus
    BY DEF RootBuses, Bus, FunctionNo
  <2> QED BY <1>0, <1>1, <2>1, <2>2 DEF Asked
<1>3. Closed(config, S)
  <2> SUFFICES ASSUME NEW loc \in Location, NEW b \in Bus,
                      loc[1] \in S, Leads(config, loc, b)
               PROVE  b \in S
    BY DEF Closed
  <2>1. loc \in Listed
    BY DEF Covered, Leads
  <2> QED BY <1>0, <1>1, <2>1 DEF Asked
<1>4. ReachableBuses(config) \subseteq S
  BY <1>2, <1>3, ReachableLeast
<1> QED
  BY <1>4 DEF Visible, Covered

\* ScanAllBus returns kSuccess only when it has listed every function there is
\* to see, whatever the topology: no early return loses a device.
THEOREM SuccessIsComplete == Spec => []SuccessMeansAll
<1>1. Init => TInv /\ Sound /\ FullInv /\ Complete
  BY TInvInit, SoundInit, DepthAndFullInit, CompleteInit
<1>2. TInv /\ Sound /\ FullInv /\ Complete /\ [Next]_vars
        => (TInv /\ Sound /\ FullInv /\ Complete)'
  BY TInvNext, SoundNext, FullNext, CompleteNext DEF Complete
<1>3. TInv /\ Sound /\ Complete => SuccessMeansAll
  BY CompleteDone
<1> QED
  BY <1>1, <1>2, <1>3, PTL DEF Spec
-----------------------------------------------------------------------------
(***************************************************************************)
(* Machines whose bus numbers are assigned properly (Forest).  Each bus is *)
(* then scanned once, and its entries are listed in the order of its       *)
(* slots, so the list and the set of what is listed have the same size.    *)
(***************************************************************************)

\* Not after r, where r is an entry or the chain that has come there.
UpTo(d, r) == Before(d, r) \/ (d.device = r.device /\ d.function = r.function)

\* A bus has been looked at, or is being looked at.
Touched(bus) ==
  \/ bus \in StackBuses
  \/ \E i \in 1 .. Len(devices) : devices[i].bus = bus

\* No bus is being scanned twice at a time.
OneChain == \A j, k \in 1 .. Len(stack) : stack[j].bus = stack[k].bus => j = k

\* A call of ScanFunction that waits for a ScanBus has listed its own function last.
BelowTop ==
  \A k \in 1 .. Len(stack) - 1, i \in 1 .. Len(devices) :
    devices[i].bus = stack[k].bus => UpTo(devices[i], stack[k])

\* The running chain is past the entries of its bus, or at the last one.
OfTop ==
  \A i \in 1 .. Len(devices) :
    stack # <<>> /\ devices[i].bus = top.bus =>
      /\ pc = "ScanBus" => devices[i].device < top.device
      /\ pc \in {"ScanFunction", "NextFunction"} => Before(devices[i], top)
      /\ pc = "ScanDevice" => UpTo(devices[i], top)

\* The root buses are looked at in the order of the host controllers.
RootsInTurn ==
  \A b \in RootBuses(config) :
    Touched(b) => host = 0 \/ b < host \/ (b = host /\ pc # "ScanHosts")

InTurn ==
  /\ OneChain /\ BelowTop /\ OfTop /\ BusOrder /\ RootsInTurn
  /\ pc = "ScanAllBus" => devices = <<>>

LEMMA EntryParts ==
  ASSUME TypeOK, NEW i \in 1 .. Len(devices)
  PROVE  devices[i] \in Device /\ devices[i].device \in Nat /\ devices[i].function \in Nat
<1>1. devices[i] \in Device
  BY ElementOfSeq DEF TypeOK
<1> QED BY <1>1 DEF Device, DeviceNo, FunctionNo

\* How an order of entries and chains follows the loops.
LEMMA BeforeParts ==
  ASSUME NEW d \in Device, NEW r \in Frame, UpTo(d, r)
  PROVE  /\ d.device < r.device + 1
         /\ Before(d, Chain(r.bus, r.device, r.function + 1))
<1>1. d.device \in Nat /\ d.function \in Nat /\ r.device \in Nat /\ r.function \in Nat
  BY FrameParts DEF Device, DeviceNo, FunctionNo
<1> QED BY <1>1 DEF UpTo, Before, Chain

\* A loop that goes on stays behind no entry of its bus.
LEMMA InTurnContinue ==
  ASSUME TypeOK, stack # <<>>, OneChain, BelowTop,
         NEW d \in 0 .. NumDevice, NEW f \in 0 .. NumFunction,
         NEW at \in {"ScanBus", "ScanFunction", "NextFunction"},
         Continue(d, f, at), UNCHANGED <<config, devices>>,
         \A i \in 1 .. Len(devices) : devices[i].bus = top.bus =>
           IF at = "ScanBus" THEN devices[i].device < d
                             ELSE Before(devices[i], Chain(top.bus, d, f))
  PROVE  OneChain' /\ BelowTop' /\ OfTop'
<1>1. /\ Len(stack) \in Nat \ {0} /\ Len(stack') = Len(stack)
      /\ top' = Chain(top.bus, d, f)
      /\ \A k \in 1 .. Len(stack) - 1 : stack'[k] = stack[k]
      /\ pc' = at
  BY ContinueEffect DEF Chain
<1>2. \A k \in 1 .. Len(stack) : stack'[k].bus = stack[k].bus
  BY <1>1 DEF top, Chain
<1>3. OneChain'
  BY <1>1, <1>2 DEF OneChain
<1>4. BelowTop'
  BY <1>1 DEF BelowTop
<1>5. OfTop'
  BY <1>1 DEF OfTop, Chain
<1> QED BY <1>3, <1>4, <1>5

\* A call for a bus that has not been touched.
LEMMA InTurnCall ==
  ASSUME TypeOK, OneChain, BelowTop, NEW b \in Bus, CallScanBus(b),
         Len(devices') \in Nat,
         b \notin StackBuses,
         \A i \in 1 .. Len(devices') : devices'[i].bus # b,
         \A k \in 1 .. Len(stack), i \in 1 .. Len(devices') :
           devices'[i].bus = stack[k].bus => UpTo(devices'[i], stack[k])
  PROVE  OneChain' /\ BelowTop' /\ OfTop'
<1>1. /\ Len(stack) \in Nat /\ Len(stack') = Len(stack) + 1
      /\ top' = Chain(b, 0, 0)
      /\ \A k \in 1 .. Len(stack) : stack'[k] = stack[k]
  BY CallEffect DEF Chain
<1>2. stack'[Len(stack')].bus = b
  BY <1>1 DEF top, Chain
<1>3. OneChain'
  <2> SUFFICES ASSUME NEW j \in 1 .. Len(stack'), NEW k \in 1 .. Len(stack'),
                      stack'[j].bus = stack'[k].bus
               PROVE  j = k
    BY DEF OneChain
  <2>1. \A l \in 1 .. Len(stack') : l # Len(stack') => l \in 1 .. Len(stack)
    BY <1>1
  <2>2. \A l \in 1 .. Len(stack) : stack[l].bus # b
    BY DEF StackBuses
  <2> QED BY <1>1, <1>2, <2>1, <2>2 DEF OneChain
<1>4. BelowTop'
  BY <1>1 DEF BelowTop
<1>5. OfTop'
  BY <1>1 DEF OfTop, Chain
<1> QED BY <1>3, <1>4, <1>5

LEMMA TopBusOnStack ==
  ASSUME TypeOK, stack # <<>>
  PROVE  /\ Len(stack) \in 1 .. Len(stack) /\ stack[Len(stack)] = top
         /\ top.bus \in StackBuses
<1>1. Len(stack) \in 1 .. Len(stack)
  BY TopOfStack
<1> QED BY <1>1 DEF StackBuses, top

LEMMA TopVisible ==
  ASSUME TInv, Sound, pc = "ScanFunction"
  PROVE  At(top) \in Visible(config)
<1>1. stack # <<>> /\ top \in Frame /\ InRange(top) /\ OnBus(config, At(top))
  BY TopOfStack DEF TInv, Shape, Running, Sound
<1>2. top.bus \in ReachableBuses(config)
  BY <1>1, TopBusOnStack DEF TInv, Sound
<1> QED BY <1>1, <1>2, AtLocation DEF Visible

\* On a forest, what is behind a bridge that is about to be listed is new.
LEMMA NewBus ==
  ASSUME TInv, Sound, Ordered, OfTop, Forest(config), pc = "ScanFunction",
         NEW s \in Bus, Leads(config, At(top), s)
  PROVE  s \notin RootBuses(config) /\ ~Touched(s)
<1>1. stack # <<>> /\ TypeOK
  BY DEF TInv, Shape, Running
<1>2. At(top) \in Visible(config) /\ IsBridge(config, At(top)[1], At(top)[2], At(top)[3])
  BY TopVisible DEF Leads
<1>3. s \notin RootBuses(config)
  BY <1>2 DEF Forest
<1>4. ASSUME NEW j \in 1 .. Len(devices), Leads(config, LocationOf(devices[j]), s)
      PROVE  FALSE
  <2> DEFINE l == LocationOf(devices[j])
  <2>1. l \in Visible(config) /\ IsBridge(config, l[1], l[2], l[3]) /\ Leads(config, l, s)
    BY <1>4 DEF Sound, OnlyVisible, Leads
  <2>2. At(top) = l
    <3> HIDE DEF l
    <3> QED BY <1>2, <2>1 DEF Forest
  <2>3. /\ devices[j].bus = top.bus
        /\ devices[j].device = top.device /\ devices[j].function = top.function
    BY <2>2 DEF At, LocationOf
  <2>4. Before(devices[j], top)
    BY <1>1, <2>3 DEF OfTop
  <2> QED BY <1>1, <2>3, <2>4, EntryParts DEF Before
<1>5. ~Entered(s)
  BY <1>3, <1>4 DEF Entered
<1>6. s \notin StackBuses
  BY <1>5 DEF Ordered
<1>7. ASSUME NEW i \in 1 .. Len(devices), devices[i].bus = s PROVE FALSE
  <2>1. PICK j \in 1 .. i - 1 : Leads(config, LocationOf(devices[j]), s)
    BY <1>3, <1>7 DEF Ordered, BridgeFirst
  <2>2. j \in 1 .. Len(devices)
    BY <1>1, LengthsNat
  <2> QED BY <1>4, <2>1, <2>2
<1> QED BY <1>3, <1>6, <1>7 DEF Touched

\* AddDevice appends to the entries of the running chain's bus.
LEMMA InTurnAdd ==
  ASSUME TypeOK, InTurn, stack # <<>>, pc = "ScanFunction", AddDevice
  PROVE  /\ Len(devices') \in Nat
         /\ BusOrder'
         /\ \A k \in 1 .. Len(stack), i \in 1 .. Len(devices') :
              devices'[i].bus = stack[k].bus => UpTo(devices'[i], stack[k])
         /\ \A b : (\E i \in 1 .. Len(devices') : devices'[i].bus = b) => Touched(b)
<1>1. /\ Len(devices) \in Nat /\ Len(devices') = Len(devices) + 1
      /\ \A j \in 1 .. Len(devices) : devices'[j] = devices[j]
      /\ devices'[Len(devices')].bus = top.bus
      /\ devices'[Len(devices')].device = top.device
      /\ devices'[Len(devices')].function = top.function
  BY AddDeviceEffect, LengthsNat
<1>2. \A i \in 1 .. Len(devices') : i \in 1 .. Len(devices) \/ i = Len(devices')
  BY <1>1
<1>3. /\ Len(stack) \in 1 .. Len(stack) /\ stack[Len(stack)] = top
      /\ top.bus \in StackBuses
  BY TopBusOnStack
<1>4. BusOrder'
  <2> SUFFICES ASSUME NEW i \in 1 .. Len(devices'), NEW j \in 1 .. Len(devices'),
                      i < j, devices'[i].bus = devices'[j].bus
               PROVE  Before(devices'[i], devices'[j])
    BY DEF BusOrder
  <2>1. i \in 1 .. Len(devices)
    BY <1>1
  <2>2. CASE j \in 1 .. Len(devices)
    BY <1>1, <2>1, <2>2 DEF InTurn, BusOrder
  <2>3. CASE j = Len(devices')
    <3>1. Before(devices[i], top)
      BY <1>1, <2>1, <2>3 DEF InTurn, OfTop
    <3> QED BY <1>1, <2>1, <2>3, <3>1 DEF Before
  <2> QED BY <1>2, <2>2, <2>3
<1>5. ASSUME NEW k \in 1 .. Len(stack), NEW i \in 1 .. Len(devices'),
             devices'[i].bus = stack[k].bus
      PROVE  UpTo(devices'[i], stack[k])
  <2>1. CASE i = Len(devices')
    <3>1. k = Len(stack)
      BY <1>1, <1>3, <1>5, <2>1 DEF InTurn, OneChain
    <3> QED BY <1>1, <1>3, <2>1, <3>1 DEF UpTo
  <2>2. CASE i \in 1 .. Len(devices) /\ k = Len(stack)
    BY <1>1, <1>3, <1>5, <2>2 DEF InTurn, OfTop, UpTo
  <2>3. CASE i \in 1 .. Len(devices) /\ k # Len(stack)
    <3>1. k \in 1 .. Len(stack) - 1
      BY <1>3, <2>3
    <3> QED BY <1>1, <1>5, <2>3, <3>1 DEF InTurn, BelowTop
  <2> QED BY <1>2, <2>1, <2>2, <2>3
<1>6. ASSUME NEW b, NEW i \in 1 .. Len(devices'), devices'[i].bus = b PROVE Touched(b)
  <2>1. CASE i = Len(devices')
    BY <1>1, <1>3, <1>6, <2>1 DEF Touched
  <2>2. CASE i \in 1 .. Len(devices)
    BY <1>1, <1>6, <2>2 DEF Touched
  <2> QED BY <1>2, <2>1, <2>2
<1> QED BY <1>1, <1>4, <1>5, <1>6

\* Without a call and without an entry, the roots stay in turn.
LEMMA RootsKept ==
  ASSUME RootsInTurn, UNCHANGED <<config, devices, host>>, StackBuses' \subseteq StackBuses,
         pc # "ScanHosts", pc' # "ScanHosts"
  PROVE  RootsInTurn'
<1>1. \A b : Touched(b)' => Touched(b)
  BY DEF Touched
<1> QED BY <1>1 DEF RootsInTurn

LEMMA InTurnInit == Init => InTurn
<1> SUFFICES ASSUME Init PROVE InTurn
  OBVIOUS
<1>1. Len(stack) = 0 /\ Len(devices) = 0 /\ stack = <<>> /\ devices = <<>>
  BY EmptySeq DEF Init
<1>2. \A b : ~Touched(b)
  BY <1>1 DEF Touched, StackBuses
<1> QED
  BY <1>1, <1>2 DEF InTurn, OneChain, BelowTop, OfTop, BusOrder, RootsInTurn

LEMMA InTurnScanAllBus ==
  ASSUME TInv, Sound, InTurn, ScanAllBus PROVE InTurn'
<1>0. TypeOK /\ stack = <<>> /\ Len(stack) = 0 /\ StackBuses = {}
      /\ devices' = <<>> /\ Len(devices') = 0 /\ config' = config
  BY EmptySeq, BusesOfEmpty DEF TInv, Shape, Running, ScanAllBus
<1>1. BusOrder' /\ (devices' = <<>>)
  BY <1>0 DEF BusOrder
<1>2. CASE CallScanBus(0) /\ host' = 0
  <2>1. 0 \in Bus
    BY DEF Bus
  <2>2. OneChain' /\ BelowTop' /\ OfTop'
    BY <1>0, <1>2, <2>1, InTurnCall DEF InTurn
  <2> QED BY <1>1, <1>2, <2>2 DEF InTurn, RootsInTurn
<1>3. CASE pc' = "ScanHosts" /\ host' = 1 /\ UNCHANGED stack
  <2>1. \A b : ~Touched(b)'
    BY <1>0, <1>3 DEF Touched, StackBuses
  <2> QED BY <1>0, <1>1, <1>3, <2>1 DEF InTurn, OneChain, BelowTop, OfTop, RootsInTurn
<1> QED BY <1>2, <1>3 DEF ScanAllBus

LEMMA InTurnScanHosts ==
  ASSUME TInv, Sound, InTurn, ScanHosts PROVE InTurn'
<1>0. /\ TypeOK /\ stack = <<>> /\ Len(stack) = 0 /\ StackBuses = {} /\ pc = "ScanHosts"
      /\ devices' = devices /\ config' = config /\ host \in 0 .. NumFunction /\ host # 0
      /\ RootBuses(config) = {f \in FunctionNo \ {0} : Present(config, 0, 0, f)}
      /\ Len(devices) \in Nat
  BY EmptySeq, BusesOfEmpty, LengthsNat
  DEF TInv, Shape, Running, ScanHosts, Sound, TypeOK, RootBuses
<1>1. BusOrder' /\ pc' # "ScanAllBus"
  BY <1>0 DEF InTurn, BusOrder, ScanHosts, CallScanBus
<1>2. \A b \in RootBuses(config) : Touched(b) => b \in Nat /\ b < host
  BY <1>0 DEF InTurn, RootsInTurn, FunctionNo
<1>3. CASE UNCHANGED stack /\ pc' \in {"Done", "ScanHosts"} /\ host' \in {host, host + 1}
  <2>1. \A b : Touched(b)' => Touched(b)
    BY <1>0, <1>3 DEF Touched, StackBuses
  <2>2. RootsInTurn'
    BY <1>0, <1>2, <1>3, <2>1 DEF RootsInTurn
  <2> QED BY <1>0, <1>1, <1>3, <2>2 DEF InTurn, OneChain, BelowTop, OfTop
<1>4. CASE /\ host < NumFunction /\ Present(config, 0, 0, host)
           /\ CallScanBus(host) /\ UNCHANGED host
  <2>1. host \in Bus /\ host \in RootBuses(config)
    BY <1>0, <1>4 DEF Bus, FunctionNo
  <2>2. ~Touched(host)
    BY <1>0, <1>2, <2>1
  <2>3. OneChain' /\ BelowTop' /\ OfTop'
    BY <1>0, <1>4, <2>1, <2>2, InTurnCall DEF InTurn, Touched
  <2>4. StackBuses' = {host} /\ pc' = "ScanBus"
    BY <1>0, <1>4, <2>1, BusesAfterCall DEF CallScanBus
  <2>5. \A b : Touched(b)' => Touched(b) \/ b = host
    BY <1>0, <2>4 DEF Touched
  <2>6. RootsInTurn'
    BY <1>0, <1>2, <1>4, <2>4, <2>5 DEF RootsInTurn
  <2> QED BY <1>1, <2>3, <2>6 DEF InTurn
<1> QED BY <1>3, <1>4 DEF ScanHosts

LEMMA InTurnScanBus ==
  ASSUME TInv, InTurn, ScanBus PROVE InTurn'
<1>0. /\ TypeOK /\ stack # <<>> /\ top \in Frame /\ UNCHANGED <<config, devices, host>>
      /\ pc = "ScanBus"
      /\ \A i \in 1 .. Len(devices) : devices[i].bus = top.bus => devices[i].device < top.device
  BY TopOfStack DEF TInv, Shape, Running, ScanBus, InTurn, OfTop
<1>1. BusOrder'
  BY <1>0 DEF InTurn, BusOrder
<1>2. CASE pc' = "Return" /\ UNCHANGED stack
  BY <1>0, <1>1, <1>2, RootsKept DEF InTurn, OneChain, BelowTop, OfTop, StackBuses
<1>3. CASE top.device < NumDevice /\ Continue(top.device + 1, 0, "ScanBus")
  <2>1. top.device + 1 \in 0 .. NumDevice
    BY <1>0, <1>3, FrameParts
  <2>2. \A i \in 1 .. Len(devices) :
          devices[i].bus = top.bus => devices[i].device < top.device + 1
    BY <1>0, FrameParts, EntryParts
  <2>3. OneChain' /\ BelowTop' /\ OfTop'
    BY <1>0, <1>3, <2>1, <2>2, InTurnContinue DEF InTurn
  <2>4. StackBuses' = StackBuses /\ pc' = "ScanBus"
    BY <1>0, <1>3, <2>1, BusesAfterContinue, ContinueEffect
  <2> QED BY <1>0, <1>1, <2>3, <2>4, RootsKept DEF InTurn
<1>4. CASE Continue(top.device, 0, "ScanFunction")
  <2>1. top.device \in 0 .. NumDevice
    BY <1>0, FrameParts
  <2>2. \A i \in 1 .. Len(devices) :
          devices[i].bus = top.bus => Before(devices[i], Chain(top.bus, top.device, 0))
    BY <1>0 DEF Before, Chain
  <2>3. OneChain' /\ BelowTop' /\ OfTop'
    BY <1>0, <1>4, <2>1, <2>2, InTurnContinue DEF InTurn
  <2>4. StackBuses' = StackBuses /\ pc' = "ScanFunction"
    BY <1>0, <1>4, <2>1, BusesAfterContinue, ContinueEffect
  <2> QED BY <1>0, <1>1, <2>3, <2>4, RootsKept DEF InTurn
<1> QED BY <1>2, <1>3, <1>4 DEF ScanBus

LEMMA InTurnScanFunction ==
  ASSUME TInv, Sound, Ordered, InTurn, Forest(config), ScanFunction PROVE InTurn'
<1>0. /\ TypeOK /\ stack # <<>> /\ top \in Frame /\ InRange(top) /\ OnBus(config, At(top))
      /\ pc = "ScanFunction" /\ UNCHANGED <<config, host>>
  BY TopOfStack DEF TInv, Shape, Running, ScanFunction, Sound
<1>1. CASE UNCHANGED <<devices, stack>> /\ pc' = "ScanDevice"
  <2>1. OfTop'
    BY <1>0, <1>1 DEF InTurn, OfTop, UpTo, top
  <2> QED BY <1>0, <1>1, <2>1, RootsKept DEF InTurn, OneChain, BelowTop, BusOrder, StackBuses
<1>2. CASE AddDevice /\ UNCHANGED stack /\ pc' = "ScanDevice"
  <2>1. BusOrder' /\ OneChain'
    BY <1>0, <1>2, InTurnAdd DEF InTurn, OneChain
  <2>2. BelowTop'
    <3>1. 1 .. Len(stack) - 1 \subseteq 1 .. Len(stack)
      BY <1>0, TopOfStack
    <3> QED BY <1>0, <1>2, <3>1, InTurnAdd DEF BelowTop
  <2>3. OfTop'
    BY <1>0, <1>2, InTurnAdd, TopBusOnStack DEF OfTop, top
  <2>4. \A b : Touched(b)' => Touched(b)
    BY <1>0, <1>2, InTurnAdd DEF Touched, StackBuses
  <2>5. RootsInTurn'
    BY <1>0, <1>2, <2>4 DEF InTurn, RootsInTurn
  <2> QED BY <1>2, <2>1, <2>2, <2>3, <2>5 DEF InTurn
<1>3. CASE /\ AddDevice
           /\ IsBridge(config, top.bus, top.device, top.function)
           /\ CallScanBus(SecondaryBus(config, top.bus, top.device, top.function))
  <2> DEFINE s == SecondaryBus(config, top.bus, top.device, top.function)
  <2>1. s \in Bus
    BY <1>0, FrameParts, Reads DEF TypeOK, InRange
  <2>2. Leads(config, At(top), s) /\ CallScanBus(s)
    BY <1>0, <1>3 DEF Leads, At
  <2> HIDE DEF s
  <2>3. s \notin RootBuses(config) /\ ~Touched(s)
    BY <1>0, <2>1, <2>2, NewBus DEF InTurn
  <2>4. \A i \in 1 .. Len(devices') : devices'[i].bus # s
    BY <1>0, <1>3, <2>3, InTurnAdd
  <2>5. OneChain' /\ BelowTop' /\ OfTop'
    BY <1>0, <1>3, <2>1, <2>2, <2>3, <2>4, InTurnAdd, InTurnCall DEF InTurn, Touched
  <2>6. StackBuses' = StackBuses \union {s} /\ pc' = "ScanBus"
    BY <1>0, <2>1, <2>2, BusesAfterCall DEF CallScanBus
  <2>7. \A b : Touched(b)' => Touched(b) \/ b = s
    BY <1>0, <1>3, <2>6, InTurnAdd DEF Touched
  <2>8. RootsInTurn'
    BY <1>0, <2>3, <2>6, <2>7 DEF InTurn, RootsInTurn
  <2> QED BY <1>0, <1>3, <2>5, <2>6, <2>8, InTurnAdd DEF InTurn
<1> QED BY <1>1, <1>2, <1>3 DEF ScanFunction

LEMMA InTurnScanDevice ==
  ASSUME TInv, InTurn, ScanDevice PROVE InTurn'
<1>0. /\ TypeOK /\ stack # <<>> /\ top \in Frame /\ UNCHANGED <<config, devices, host>>
      /\ pc = "ScanDevice" /\ InRange(top)
      /\ \A i \in 1 .. Len(devices) : devices[i].bus = top.bus => UpTo(devices[i], top)
  BY TopOfStack DEF TInv, Shape, Running, ScanDevice, InTurn, OfTop
<1>1. BusOrder'
  BY <1>0 DEF InTurn, BusOrder
<1>2. CASE pc' = "Return" /\ UNCHANGED stack
  BY <1>0, <1>1, <1>2, RootsKept DEF InTurn, OneChain, BelowTop, OfTop, StackBuses
<1>3. CASE Continue(top.device + 1, 0, "ScanBus")
  <2>1. top.device + 1 \in 0 .. NumDevice
    BY <1>0 DEF InRange, DeviceNo
  <2>2. \A i \in 1 .. Len(devices) :
          devices[i].bus = top.bus => devices[i].device < top.device + 1
    BY <1>0, EntryParts, BeforeParts
  <2>3. OneChain' /\ BelowTop' /\ OfTop'
    BY <1>0, <1>3, <2>1, <2>2, InTurnContinue DEF InTurn
  <2>4. StackBuses' = StackBuses /\ pc' = "ScanBus"
    BY <1>0, <1>3, <2>1, BusesAfterContinue, ContinueEffect
  <2> QED BY <1>0, <1>1, <2>3, <2>4, RootsKept DEF InTurn
<1>4. CASE Continue(top.device, top.function + 1, "NextFunction")
  <2>1. top.device \in 0 .. NumDevice /\ top.function + 1 \in 0 .. NumFunction
    BY <1>0 DEF InRange, DeviceNo, FunctionNo
  <2>2. \A i \in 1 .. Len(devices) :
          devices[i].bus = top.bus =>
            Before(devices[i], Chain(top.bus, top.device, top.function + 1))
    BY <1>0, EntryParts, BeforeParts
  <2>3. OneChain' /\ BelowTop' /\ OfTop'
    BY <1>0, <1>4, <2>1, <2>2, InTurnContinue DEF InTurn
  <2>4. StackBuses' = StackBuses /\ pc' = "NextFunction"
    BY <1>0, <1>4, <2>1, BusesAfterContinue, ContinueEffect
  <2> QED BY <1>0, <1>1, <2>3, <2>4, RootsKept DEF InTurn
<1> QED BY <1>2, <1>3, <1>4 DEF ScanDevice

LEMMA InTurnNextFunction ==
  ASSUME TInv, InTurn, NextFunction PROVE InTurn'
<1>0. /\ TypeOK /\ stack # <<>> /\ top \in Frame /\ UNCHANGED <<config, devices, host>>
      /\ pc = "NextFunction" /\ top.device \in DeviceNo
      /\ \A i \in 1 .. Len(devices) : devices[i].bus = top.bus => Before(devices[i], top)
  BY TopOfStack DEF TInv, Shape, Running, NextFunction, InTurn, OfTop
<1>1. BusOrder'
  BY <1>0 DEF InTurn, BusOrder
<1>2. CASE Continue(top.device + 1, 0, "ScanBus")
  <2>1. top.device + 1 \in 0 .. NumDevice
    BY <1>0 DEF DeviceNo
  <2>2. \A i \in 1 .. Len(devices) :
          devices[i].bus = top.bus => devices[i].device < top.device + 1
    BY <1>0, EntryParts, BeforeParts DEF UpTo
  <2>3. OneChain' /\ BelowTop' /\ OfTop'
    BY <1>0, <1>2, <2>1, <2>2, InTurnContinue DEF InTurn
  <2>4. StackBuses' = StackBuses /\ pc' = "ScanBus"
    BY <1>0, <1>2, <2>1, BusesAfterContinue, ContinueEffect
  <2> QED BY <1>0, <1>1, <2>3, <2>4, RootsKept DEF InTurn
<1>3. CASE top.function < NumFunction /\ Continue(top.device, top.function + 1, "NextFunction")
  <2>1. top.device \in 0 .. NumDevice /\ top.function + 1 \in 0 .. NumFunction
    BY <1>0, <1>3, FrameParts
  <2>2. \A i \in 1 .. Len(devices) :
          devices[i].bus = top.bus =>
            Before(devices[i], Chain(top.bus, top.device, top.function + 1))
    BY <1>0, EntryParts, BeforeParts DEF UpTo
  <2>3. OneChain' /\ BelowTop' /\ OfTop'
    BY <1>0, <1>3, <2>1, <2>2, InTurnContinue DEF InTurn
  <2>4. StackBuses' = StackBuses /\ pc' = "NextFunction"
    BY <1>0, <1>3, <2>1, BusesAfterContinue, ContinueEffect
  <2> QED BY <1>0, <1>1, <2>3, <2>4, RootsKept DEF InTurn
<1>4. CASE Continue(top.device, top.function, "ScanFunction")
  <2>1. top.device \in 0 .. NumDevice /\ top.function \in 0 .. NumFunction
    BY <1>0, FrameParts
  <2>2. \A i \in 1 .. Len(devices) :
          devices[i].bus = top.bus =>
            Before(devices[i], Chain(top.bus, top.device, top.function))
    BY <1>0 DEF Before, Chain
  <2>3. OneChain' /\ BelowTop' /\ OfTop'
    BY <1>0, <1>4, <2>1, <2>2, InTurnContinue DEF InTurn
  <2>4. StackBuses' = StackBuses /\ pc' = "ScanFunction"
    BY <1>0, <1>4, <2>1, BusesAfterContinue, ContinueEffect
  <2> QED BY <1>0, <1>1, <2>3, <2>4, RootsKept DEF InTurn
<1> QED BY <1>2, <1>3, <1>4 DEF NextFunction

LEMMA InTurnReturn ==
  ASSUME TInv, InTurn, Return PROVE InTurn'
<1>0. /\ TypeOK /\ stack # <<>> /\ UNCHANGED <<config, devices>> /\ pc = "Return"
      /\ host \in 0 .. NumFunction /\ pc' \in {"ScanDevice", "Done", "ScanHosts"}
  BY DEF TInv, TypeOK, Shape, Running, Return
<1>1. /\ Len(stack) \in Nat \ {0} /\ Len(stack') = Len(stack) - 1
      /\ stack' = <<>> <=> Len(stack) = 1
      /\ \A k \in 1 .. Len(stack) - 1 : stack'[k] = stack[k]
      /\ StackBuses' \subseteq StackBuses
  BY <1>0, ReturnEffect, BusesAfterReturn
<1>2. BusOrder' /\ OneChain'
  BY <1>0, <1>1 DEF InTurn, BusOrder, OneChain
<1>3. \A k \in 1 .. Len(stack'), i \in 1 .. Len(devices) :
        devices[i].bus = stack'[k].bus => UpTo(devices[i], stack'[k])
  BY <1>1 DEF InTurn, BelowTop
<1>4. BelowTop'
  BY <1>0, <1>1, <1>3 DEF BelowTop
<1>5. OfTop'
  <2>1. stack' # <<>> => Len(stack') \in 1 .. Len(stack')
    BY <1>1
  <2> QED BY <1>0, <1>3, <2>1 DEF OfTop, top
<1>6. RootsInTurn'
  <2>1. \A b : Touched(b)' => Touched(b)
    BY <1>0, <1>1 DEF Touched
  <2>2. \A b \in RootBuses(config) : b \in Nat
    BY DEF RootBuses, FunctionNo
  <2>3. \/ host' = host /\ pc' # "ScanHosts"
        \/ host # 0 /\ host' = host + 1
    BY DEF Return
  <2> QED BY <1>0, <2>1, <2>2, <2>3 DEF InTurn, RootsInTurn
<1> QED BY <1>0, <1>2, <1>4, <1>5, <1>6 DEF InTurn

LEMMA InTurnNext ==
  ASSUME TInv, Sound, Ordered, InTurn, Forest(config), [Next]_vars
  PROVE  InTurn'
<1>1. CASE UNCHANGED vars
  <2>1. UNCHANGED <<config, devices, stack, host, pc, top, StackBuses>>
    BY <1>1 DEF vars, top, StackBuses
  <2>2. OneChain' /\ BelowTop' /\ OfTop' /\ BusOrder'
    BY <2>1 DEF InTurn, OneChain, BelowTop, OfTop, BusOrder
  <2>3. RootsInTurn'
    BY <2>1 DEF InTurn, RootsInTurn, Touched
  <2> QED BY <2>1, <2>2, <2>3 DEF InTurn
<1> QED
  BY <1>1, InTurnScanAllBus, InTurnScanHosts, InTurnScanBus, InTurnScanFunction,
     InTurnScanDevice, InTurnNextFunction, InTurnReturn DEF Next

\* No step changes the machine.
LEMMA SameMachine == [Next]_vars => config' = config
  BY DEF Next, ScanAllBus, ScanHosts, ScanBus, ScanFunction, ScanDevice, NextFunction,
         Return, vars

\* What is invariant on a forest.
ForestInv == TInv /\ Sound /\ Ordered /\ FullInv /\ Complete /\ (Forest(config) => InTurn)

LEMMA ForestInvInit == Init => ForestInv
  BY TInvInit, SoundInit, OrderedInit, DepthAndFullInit, CompleteInit, InTurnInit
  DEF ForestInv

LEMMA ForestInvNext == ForestInv /\ [Next]_vars => ForestInv'
<1> SUFFICES ASSUME ForestInv, [Next]_vars PROVE ForestInv'
  OBVIOUS
<1>1. TInv' /\ Sound' /\ Ordered' /\ FullInv' /\ Complete'
  BY TInvNext, SoundNext, OrderedNext, FullNext, CompleteNext DEF ForestInv, Complete
<1>2. Forest(config') => InTurn'
  BY SameMachine, InTurnNext DEF ForestInv
<1> QED BY <1>1, <1>2 DEF ForestInv

\* On a forest the entries of a bus are listed in the order of their device and
\* function numbers, whatever is listed between them; no function is listed twice.
THEOREM EntriesInBusOrder == Spec => [](Forest(config) => BusOrder)
<1>1. ForestInv => (Forest(config) => BusOrder)
  BY DEF ForestInv, InTurn
<1> QED
  BY <1>1, ForestInvInit, ForestInvNext, PTL DEF Spec

-----------------------------------------------------------------------------
(***************************************************************************)
(* Counting: the list has as many entries as functions are listed.         *)
(***************************************************************************)
LEMMA LocationsFinite == IsFiniteSet(Location)
<1> DEFINE pairs == (Bus \X DeviceNo) \X FunctionNo
           f == [p \in pairs |-> <<p[1][1], p[1][2], p[2]>>]
<1>1. IsFiniteSet(Bus) /\ IsFiniteSet(DeviceNo) /\ IsFiniteSet(FunctionNo)
  BY FS_Interval DEF Bus, DeviceNo, FunctionNo
<1>2. IsFiniteSet(pairs)
  BY <1>1, FS_Product
<1>3. f \in [pairs -> Location]
  BY DEF Location
<1>4. ASSUME NEW loc \in Location PROVE \E p \in pairs : f[p] = loc
  <2>1. <<<<loc[1], loc[2]>>, loc[3]>> \in pairs
    BY LocationParts
  <2>2. f[<<<<loc[1], loc[2]>>, loc[3]>>] = loc
    BY <2>1, LocationParts
  <2> QED BY <2>1, <2>2
<1> HIDE DEF pairs, f
<1>5. f \in Surjection(pairs, Location)
  BY <1>3, <1>4 DEF Surjection
<1> QED BY <1>2, <1>5, FS_Surjection

LEMMA VisibleFinite == ASSUME NEW c PROVE IsFiniteSet(Visible(c))
<1>1. Visible(c) \in SUBSET Location
  BY DEF Visible
<1> QED BY <1>1, LocationsFinite, FS_Subset

\* No function is listed twice.
LEMMA ListedSize ==
  ASSUME TypeOK, BusOrder
  PROVE  Cardinality(Listed) = Len(devices)
<1> DEFINE n == Len(devices)
           f == [i \in 1 .. n |-> LocationOf(devices[i])]
<1>1. n \in Nat
  BY LengthsNat
<1>2. ASSUME NEW i \in 1 .. n, NEW j \in 1 .. n, i < j,
             LocationOf(devices[i]) = LocationOf(devices[j])
      PROVE  FALSE
  <2>1. /\ devices[i].bus = devices[j].bus
        /\ devices[i].device = devices[j].device
        /\ devices[i].function = devices[j].function
    BY <1>2 DEF LocationOf
  <2>2. Before(devices[i], devices[j])
    BY <1>2, <2>1 DEF BusOrder
  <2> QED BY <2>1, <2>2, EntryParts DEF Before
<1>3. ASSUME NEW i \in 1 .. n, NEW j \in 1 .. n, f[i] = f[j] PROVE i = j
  <2>1. LocationOf(devices[i]) = LocationOf(devices[j])
    BY <1>3
  <2>2. ~(i < j) /\ ~(j < i)
    BY <1>2, <2>1
  <2> QED BY <1>1, <2>2
<1>4. f \in [1 .. n -> Listed] /\ \A l \in Listed : \E i \in 1 .. n : f[i] = l
  BY DEF Listed
<1>5. f \in Bijection(1 .. n, Listed)
  <2> HIDE DEF f
  <2>1. f \in Injection(1 .. n, Listed)
    BY <1>3, <1>4 DEF Injection, IsInjective
  <2>2. f \in Surjection(1 .. n, Listed)
    BY <1>4 DEF Surjection
  <2> QED BY <2>1, <2>2 DEF Bijection
<1> QED
  BY <1>1, <1>5, FS_CountingElements DEF ExistsBijection

-----------------------------------------------------------------------------
(***************************************************************************)
(* What is left when the array is full.                                    *)
(***************************************************************************)

\* The function that AddDevice had no room for is not in the list, and the roots and the
\* listed bridges lead to it.
Refused ==
  err = "kFull" => ~(Enumeration!Frontier(config, Listed) \subseteq Listed)

\* The abstract module reads a configuration space as the scan does.
LEMMA FrontierParts ==
  ASSUME NEW c, NEW S, NEW loc
  PROVE  loc \in Enumeration!Frontier(c, S) <=>
           /\ loc \in Location /\ OnBus(c, loc)
           /\ loc[1] \in RootBuses(c) \/ \E b \in S : Leads(c, b, loc[1])
<1>1. /\ Enumeration!Location = Location
      /\ \A l : Enumeration!OnBus(c, l) <=> OnBus(c, l)
      /\ Enumeration!RootBuses(c) = RootBuses(c)
  BY DEF Enumeration!Location, Enumeration!Bus, Enumeration!DeviceNo, Enumeration!FunctionNo,
         Location, Bus, DeviceNo, FunctionNo, Enumeration!OnBus, Enumeration!Present,
         Enumeration!ReadHeaderType, OnBus, Present, ReadHeaderType,
         Enumeration!RootBuses, Enumeration!IsSingleFunctionDevice, RootBuses,
         IsSingleFunctionDevice
<1>2. \A l, b : Enumeration!Leads(c, l, b) <=> Leads(c, l, b)
  BY <1>1 DEF Enumeration!Leads, Enumeration!IsBridge, Enumeration!SecondaryBus,
              Leads, IsBridge, SecondaryBus
<1> QED BY <1>1, <1>2 DEF Enumeration!Frontier

LEMMA EnumerationCardinality ==
  ASSUME NEW S PROVE Enumeration!Cardinality(S) = Cardinality(S)
  BY DEF Enumeration!Cardinality, Cardinality

\* What the roots and listed bridges lead to is there to be seen.
LEMMA FrontierVisible ==
  ASSUME Sound, TypeOK
  PROVE  Enumeration!Frontier(config, Listed) \subseteq Visible(config)
<1>0. \A loc \in Listed : loc \in Visible(config)
  BY DEF Sound, OnlyVisible, Listed
<1> SUFFICES ASSUME NEW loc \in Location, OnBus(config, loc),
                    \/ loc[1] \in RootBuses(config)
                    \/ \E b \in Listed : Leads(config, b, loc[1])
             PROVE  loc \in Visible(config)
  BY FrontierParts
<1>1. CASE loc[1] \in RootBuses(config)
  BY <1>1, RootsReachable DEF Visible
<1>2. ASSUME NEW b \in Listed, Leads(config, b, loc[1]) PROVE loc \in Visible(config)
  <2>1. b \in Location /\ b[1] \in ReachableBuses(config)
    BY <1>0 DEF Visible
  <2>2. loc[1] \in ReachableBuses(config)
    BY <1>2, <2>1, LocationParts, BridgesReachable
  <2> QED BY <2>2 DEF Visible
<1> QED BY <1>1, <1>2

\* The function that the scan has come to is the next one on the frontier.
LEMMA TopOnFrontier ==
  ASSUME TInv, Sound, Ordered, OfTop, pc = "ScanFunction"
  PROVE  At(top) \in Enumeration!Frontier(config, Listed) \ Listed
<1>1. /\ TypeOK /\ stack # <<>> /\ top \in Frame /\ InRange(top)
      /\ OnBus(config, At(top)) /\ At(top) \in Location /\ At(top)[1] = top.bus
  BY TopOfStack, AtLocation DEF TInv, Shape, Running, Sound
<1>2. top.bus \in RootBuses(config) \/ \E b \in Listed : Leads(config, b, top.bus)
  BY <1>1, TopBusOnStack DEF Ordered, Entered, Listed
<1>3. ASSUME At(top) \in Listed PROVE FALSE
  <2>1. PICK i \in 1 .. Len(devices) : At(top) = LocationOf(devices[i])
    BY <1>3 DEF Listed
  <2>2. /\ devices[i].bus = top.bus
        /\ devices[i].device = top.device /\ devices[i].function = top.function
    BY <2>1 DEF At, LocationOf
  <2>3. Before(devices[i], top)
    BY <1>1, <2>2 DEF OfTop
  <2> QED BY <1>1, <2>2, <2>3, EntryParts DEF Before
<1> QED BY <1>1, <1>2, <1>3, FrontierParts

LEMMA RefusedNext ==
  ASSUME TInv, Sound, Ordered, FullInv, OfTop, Refused, [Next]_vars
  PROVE  Refused'
<1>1. CASE UNCHANGED vars
  BY <1>1 DEF vars, Refused, Listed
<1>2. CASE Next /\ err = "kFull"
  <2>1. config' = config /\ Listed' = Listed
    BY <1>2, UnwindNext, SameMachine DEF Listed
  <2> QED BY <1>2, <2>1 DEF Refused
<1>3. CASE Next /\ err # "kFull"
  <2>1. CASE err' # "kFull"
    BY <2>1 DEF Refused
  <2>2. CASE err' = "kFull"
    <3>1. pc = "ScanFunction" /\ UNCHANGED <<config, devices>>
      BY <1>3, <2>2 DEF Next, ScanAllBus, ScanHosts, ScanBus, ScanFunction, ScanDevice,
         NextFunction, Return
    <3>2. Listed' = Listed
      BY <3>1 DEF Listed
    <3> QED BY <3>1, <3>2, TopOnFrontier DEF Refused
  <2> QED BY <2>1, <2>2
<1> QED BY <1>1, <1>2, <1>3

ScanInv == ForestInv /\ (Forest(config) => Refused)

LEMMA ScanInvInit == Init => ScanInv
  BY ForestInvInit DEF ScanInv, Refused, Init

LEMMA ScanInvNext == ScanInv /\ [Next]_vars => ScanInv'
<1> SUFFICES ASSUME ScanInv, [Next]_vars PROVE ScanInv'
  OBVIOUS
<1>1. ForestInv'
  BY ForestInvNext DEF ScanInv
<1>2. Forest(config') => Refused'
  BY SameMachine, RefusedNext DEF ScanInv, ForestInv, InTurn
<1> QED BY <1>1, <1>2 DEF ScanInv

\* On a forest ScanAllBus reports kFull only when the machine has more functions than
\* pci::devices has elements: a machine that fills the array exactly succeeds.
THEOREM FullIsTooMany == Spec => [](Forest(config) => FullMeansTooMany)
<1>1. ASSUME ScanInv, Forest(config) PROVE FullMeansTooMany
  <2> SUFFICES ASSUME err = "kFull" PROVE Cardinality(Visible(config)) > Capacity
    BY DEF FullMeansTooMany
  <2>1. TypeOK /\ BusOrder /\ Sound /\ Len(devices) = Capacity /\ Refused
    BY <1>1 DEF ScanInv, ForestInv, InTurn, TInv, FullInv
  <2>2. Cardinality(Listed) = Capacity
    BY <2>1, ListedSize
  <2>3. PICK loc \in Visible(config) : loc \notin Listed
    BY <2>1, FrontierVisible DEF Refused
  <2>4. Listed \subseteq Visible(config)
    BY <2>1 DEF Sound, OnlyVisible, Listed
  <2>5. /\ IsFiniteSet(Visible(config)) /\ IsFiniteSet(Listed)
        /\ Cardinality(Listed) <= Cardinality(Visible(config))
        /\ Cardinality(Listed) # Cardinality(Visible(config))
    BY <2>3, <2>4, VisibleFinite, FS_Subset
  <2>6. Cardinality(Visible(config)) \in Nat
    BY <2>5, FS_CardinalityType
  <2> QED BY <2>2, <2>5, <2>6
<1> QED
  BY <1>1, ScanInvInit, ScanInvNext, PTL DEF Spec

-----------------------------------------------------------------------------
(***************************************************************************)
(* On a forest the recursive scan implements PciEnumeration: a step lists  *)
(* one more function of the frontier, or ends the enumeration, or changes  *)
(* nothing that the enumeration knows of.                                  *)
(***************************************************************************)
LEMMA ImplementsInit == Init => Enumeration!EnumInit
<1> SUFFICES ASSUME Init PROVE Enumeration!EnumInit
  OBVIOUS
<1>1. Listed = {}
  BY EmptySeq DEF Init, Listed
<1>2. Enumeration!ConfigSpace = ConfigSpace
  BY DEF Enumeration!ConfigSpace, Enumeration!Location, Enumeration!Bus,
         Enumeration!DeviceNo, Enumeration!FunctionNo, Enumeration!Registers,
         Enumeration!Absent, ConfigSpace, Location, Bus, DeviceNo, FunctionNo,
         Registers, Absent
<1> QED BY <1>1, <1>2, PciMachines DEF Init, Enumeration!EnumInit

\* AddDevice lists.
LEMMA ImplementsList ==
  ASSUME ScanInv, Forest(config), ScanFunction, AddDevice
  PROVE  Enumeration!List
<1>1. /\ TypeOK /\ TInv /\ Sound /\ Ordered /\ OfTop /\ BusOrder
      /\ pc = "ScanFunction" /\ pc' # "Done" /\ config' = config
  BY DEF ScanInv, ForestInv, InTurn, TInv, ScanFunction, CallScanBus
<1>2. Listed' = Listed \union {At(top)}
  BY <1>1, ListedAfterAdd
<1>3. At(top) \in Enumeration!Frontier(config, Listed) \ Listed
  BY <1>1, TopOnFrontier
<1>4. Enumeration!Cardinality(Listed) < Capacity
  BY <1>1, ListedSize, LengthsNat, EnumerationCardinality DEF AddDevice, ArrayFull, TypeOK
<1> QED BY <1>1, <1>2, <1>3, <1>4 DEF Enumeration!List

\* Success leaves nothing on the frontier.
NothingLeft ==
  pc = "Done" /\ err = "kSuccess" => Enumeration!Frontier(config, Listed) \subseteq Listed

LEMMA SuccessLeavesNothing == ScanInv => NothingLeft
<1> SUFFICES ASSUME ScanInv, pc = "Done", err = "kSuccess"
             PROVE  Enumeration!Frontier(config, Listed) \subseteq Listed
  BY DEF NothingLeft
<1>1. TInv /\ TypeOK /\ Sound /\ Complete
  BY DEF ScanInv, ForestInv, TInv
<1>2. Visible(config) \subseteq Listed
  BY <1>1, CompleteDone DEF SuccessMeansAll
<1>3. Enumeration!Frontier(config, Listed) \subseteq Visible(config)
  BY <1>1, FrontierVisible
<1> QED BY <1>2, <1>3

\* The end of ScanAllBus is the end of the enumeration, with the same result.
LEMMA ImplementsEnd ==
  ASSUME ScanInv, ScanInv', NothingLeft', Forest(config), Next, pc' = "Done"
  PROVE  Enumeration!Succeed \/ Enumeration!GiveUp
<1>1. /\ pc # "Done" /\ UNCHANGED <<config, devices>>
  BY DEF Next, ScanAllBus, ScanHosts, ScanBus, ScanFunction, ScanDevice, NextFunction,
         Return, CallScanBus, Continue
<1>2. Listed' = Listed
  BY <1>1 DEF Listed
<1>3. TypeOK /\ BusOrder /\ TypeOK' /\ FullInv' /\ Refused'
  BY <1>1 DEF ScanInv, ForestInv, InTurn, TInv
<1>4. CASE err' = "kSuccess"
  <2>1. Enumeration!Frontier(config, Listed) \subseteq Listed
    BY <1>1, <1>2, <1>4 DEF NothingLeft
  <2> QED BY <1>1, <1>2, <1>4, <2>1 DEF Enumeration!Succeed
<1>5. CASE err' = "kFull"
  <2>1. Enumeration!Cardinality(Listed) = Capacity
    BY <1>1, <1>3, <1>5, ListedSize, EnumerationCardinality DEF FullInv
  <2>2. ~(Enumeration!Frontier(config, Listed) \subseteq Listed)
    BY <1>1, <1>2, <1>3, <1>5 DEF Refused
  <2> QED BY <1>1, <1>2, <1>5, <2>1, <2>2 DEF Enumeration!GiveUp
<1> QED BY <1>3, <1>4, <1>5 DEF TypeOK, Error

LEMMA ImplementsStep ==
  ASSUME ScanInv, ScanInv', NothingLeft', Forest(config), [Next]_vars
  PROVE  [Enumeration!EnumNext]_(Enumeration!enumVars)
<1>1. CASE Next /\ pc' = "Done"
  BY <1>1, ImplementsEnd DEF Enumeration!EnumNext
<1>2. CASE ScanFunction /\ AddDevice
  BY <1>2, ImplementsList DEF Enumeration!EnumNext
<1>3. CASE Next /\ pc # "Done" /\ pc' # "Done" /\ UNCHANGED <<config, devices>>
  <2>1. Listed' = Listed
    BY <1>3 DEF Listed
  <2> QED BY <1>3, <2>1 DEF Enumeration!enumVars
<1>4. CASE ScanAllBus
  <2>1. devices = <<>> /\ devices' = <<>> /\ config' = config /\ pc # "Done" /\ pc' # "Done"
    BY <1>4 DEF ScanAllBus, CallScanBus, ScanInv, ForestInv, InTurn
  <2>2. Listed' = Listed
    BY <2>1 DEF Listed
  <2> QED BY <2>1, <2>2 DEF Enumeration!enumVars
<1>5. CASE UNCHANGED vars
  <2>1. Listed' = Listed
    BY <1>5 DEF vars, Listed
  <2> QED BY <1>5, <2>1 DEF vars, Enumeration!enumVars
<1>6. Next => \/ ScanAllBus
              \/ ScanFunction /\ AddDevice
              \/ pc # "Done" /\ UNCHANGED <<config, devices>>
  BY DEF Next, ScanAllBus, ScanHosts, ScanBus, ScanFunction, ScanDevice, NextFunction, Return
<1> QED BY <1>1, <1>2, <1>3, <1>4, <1>5, <1>6

\* On machines with properly assigned bus numbers, ScanAllBus does what PciEnumeration says:
\* one function after the other, each on a root bus or behind a bridge listed before, until
\* there is none left (kSuccess) or one is left and there is no room for it (kFull).
THEOREM ScanEnumerates ==
  ASSUME \A c \in ConfigSpaces : Forest(c)
  PROVE  Spec => Enumeration!EnumInit /\ [][Enumeration!EnumNext]_(Enumeration!enumVars)
<1>1. Init => Forest(config)
  BY DEF Init
<1>2. Forest(config) /\ [Next]_vars => Forest(config)'
  BY SameMachine
<1>3. ScanInv /\ ScanInv' /\ NothingLeft' /\ Forest(config) /\ [Next]_vars
        => [Enumeration!EnumNext]_(Enumeration!enumVars)
  BY ImplementsStep
<1> QED
  BY <1>1, <1>2, <1>3, ImplementsInit, ScanInvInit, ScanInvNext, SuccessLeavesNothing,
     PTL DEF Spec
=============================================================================
