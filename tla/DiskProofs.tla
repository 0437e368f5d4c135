----------------------------- MODULE DiskProofs -----------------------------
(***************************************************************************)
(* Theorems about the disk drivers.  First AtaPio, for every size of the   *)
(* drive, every limit of the polls and attempts and every sequence of      *)
(* calls.  Then FatFs: the disk stays sound while nothing fails, and a     *)
(* write that fails harms no other file.                                   *)
(***************************************************************************)
EXTENDS AtaPio, FatFs, RingLemmas, FiniteSetTheorems

(* The ATA driver.                                                         *)
Running == apc \in {"issue", "wait", "move"}

CallRecord == [op : {None, "read", "write"}, lba : Lbas, count : Nat, c : Nat,
               attempt : Nat, polls : Nat]

(* A running call has sectors left.                                        *)
CallOK ==
    /\ call \in CallRecord
    /\ Running => call.op # None /\ call.c < call.count
    /\ calls \in 0 .. MaxCalls /\ confused \in BOOLEAN
    /\ buf \in Seq(Value)

(* Data are moved only while the drive waits for that, and as long as no   *)
(* call was confused the drive is working on the sector of the call: a     *)
(* repeated attempt finds it where the attempt before left it.             *)
Synchronized ==
    /\ apc = "move" => drive.st = "drq"
    /\ ~confused /\ Running /\ drive.st \in {"busy", "drq"} =>
         drive.op = call.op /\ drive.lba = Cur

(* What the drive is still storing is the last data written to the sector. *)
(* A read has then received nothing: its command was not accepted yet.     *)
StoresTheLast ==
    ~confused /\ drive.st = "storing" =>
      /\ shadow[drive.lba] = drive.data
      /\ call.op = "read" => call.c = 0

(* What a write still has to do concerns sectors that were asked for: the  *)
(* sectors of the running call, and the one of the drive's command, which  *)
(* may be that of a call long gone.                                        *)
WritesAsked ==
    /\ drive.st = "storing" => drive.op = "write"
    /\ drive.op = "write" => drive.lba \in asked
    /\ Running /\ call.op = "write" =>
         \A k \in 0 .. call.count - 1 : Address(call.lba, k) \in asked

AtaInv ==
    /\ AtaTypeOK /\ CallOK /\ Synchronized /\ StoresTheLast
    /\ ReadsTheSectors /\ WritesTheSectors /\ WritesAsked /\ OnlyAskedSectorsChange

-----------------------------------------------------------------------------
LEMMA Limits ==
    /\ LbaSpace \in Nat /\ LbaSpace > 0 /\ MaxPolls \in Nat /\ MaxPolls > 0
    /\ Attempts \in Nat /\ Attempts > 0 /\ MaxCalls \in Nat
    /\ \A k \in Counts : k \in Nat /\ k > 0
BY AtaAssumption

LEMMA AddressIs ==
    ASSUME NEW lba \in Nat, NEW k \in Nat
    PROVE  Address(lba, k) \in Lbas
<1>1. \A a, n \in Nat : n > 0 => a % n \in 0 .. n - 1
  OBVIOUS
<1>2. lba + k \in Nat
  OBVIOUS
<1> QED BY <1>1, <1>2, Limits DEF Address, Lbas

LEMMA CallRecordUpdate ==
    ASSUME NEW r \in CallRecord, NEW c \in Nat, NEW a \in Nat, NEW p \in Nat
    PROVE  /\ [r EXCEPT !.c = c, !.attempt = a, !.polls = p] \in CallRecord
           /\ [r EXCEPT !.attempt = a, !.polls = p] \in CallRecord
BY DEF CallRecord

LEMMA AtaInvInit == PowerOn => AtaInv
<1> SUFFICES ASSUME PowerOn PROVE AtaInv
  OBVIOUS
<1>0. 0 \in Lbas /\ Garbage \in Value /\ \A l \in Lbas : <<0, l>> \in Value
  BY Limits DEF Lbas, Value, Garbage
<1>1. AtaTypeOK
  <2>1. drive \in [st : {"idle", "busy", "drq", "storing", "err"}, lba : Lbas,
                   op : {None, "read", "write"}, data : Value]
    BY <1>0 DEF PowerOn
  <2>2. media \in [Lbas -> Value] /\ shadow \in [Lbas -> Value]
    BY <1>0 DEF PowerOn
  <2>3. /\ call.c \in 0 .. call.count
        /\ call.attempt \in 0 .. Attempts - 1 /\ call.polls \in 0 .. MaxPolls
    BY Limits DEF PowerOn, NoCall
  <2> QED BY <2>1, <2>2, <2>3 DEF PowerOn, AtaTypeOK
<1>2. CallOK
  <2>1. call \in CallRecord
    BY <1>0 DEF PowerOn, NoCall, CallRecord
  <2>2. 0 \in 0 .. MaxCalls
    BY Limits
  <2>3. buf \in Seq(Value) /\ calls = 0 /\ confused = FALSE /\ apc = "boot"
    BY DEF PowerOn
  <2> QED BY <2>1, <2>2, <2>3 DEF CallOK, Running
<1>3. WritesAsked /\ OnlyAskedSectorsChange
  BY DEF PowerOn, WritesAsked, OnlyAskedSectorsChange, NoCall, None, Running
<1> QED BY <1>1, <1>2, <1>3 DEF PowerOn, AtaInv, Synchronized, StoresTheLast, ReadsTheSectors,
                          WritesTheSectors, NoCall, None, Running

LEMMA BootStep ==
    ASSUME AtaInv, Identify \/ AtaInit \/ IdentifyFails
    PROVE  AtaInv'
<1>1. /\ apc \in {"boot", "identified"} /\ apc' \in {"identified", "done", "off"}
      /\ functions' \in BOOLEAN /\ default_dev' \in {None, "ata0"}
      /\ UNCHANGED <<drive, media, call, buf, calls, shadow, asked, lost, confused>>
  BY DEF AtaInv, AtaTypeOK, Identify, AtaInit, IdentifyFails, StorageRegister, ataHistory
<1> QED BY <1>1 DEF AtaInv, AtaTypeOK, CallOK, Running, Synchronized, StoresTheLast,
                    ReadsTheSectors, WritesTheSectors, Cur, WritesAsked, OnlyAskedSectorsChange

LEMMA CallStep ==
    ASSUME AtaInv, NEW op \in {"read", "write"}, NEW lba \in Lbas, NEW count \in Counts,
           Call(op, lba, count)
    PROVE  AtaInv'
<1>1. call' = [op |-> op, lba |-> lba, count |-> count, c |-> 0, attempt |-> 0, polls |-> 0]
  BY DEF Call, NoCall
<1>2. /\ apc' = "issue" /\ calls < MaxCalls /\ calls' = calls + 1 /\ buf' = <<>>
      /\ UNCHANGED <<default_dev, functions, drive, media, shadow, lost>>
  BY DEF Call
<1>3. confused' \in BOOLEAN /\ (~confused' => ~confused /\ drive.st \notin {"busy", "drq"})
  BY DEF Call
<1>0. /\ asked \subseteq asked' /\ asked' \subseteq Lbas
      /\ op = "write" => \A k \in 0 .. count - 1 : Address(lba, k) \in asked'
  <2>1. lba \in Nat /\ count \in Nat
    BY Limits DEF Lbas
  <2>2. \A k \in 0 .. count - 1 : Address(lba, k) \in Lbas
    BY <2>1, AddressIs
  <2> QED BY <2>2 DEF Call, AtaInv, AtaTypeOK
<1>4. AtaTypeOK'
  BY <1>0, <1>1, <1>2, Limits DEF AtaInv, AtaTypeOK
<1>5. CallOK'
  BY <1>1, <1>2, <1>3, Limits DEF AtaInv, CallOK, CallRecord, Running, None
<1>6. Synchronized' /\ StoresTheLast'
  BY <1>1, <1>2, <1>3 DEF AtaInv, Synchronized, StoresTheLast
<1>7. ReadsTheSectors' /\ WritesTheSectors'
  BY <1>1, <1>2, <1>3, <1>4 DEF AtaInv, ReadsTheSectors, WritesTheSectors
<1>8. WritesAsked' /\ OnlyAskedSectorsChange'
  BY <1>0, <1>1, <1>2 DEF AtaInv, WritesAsked, OnlyAskedSectorsChange
<1> QED BY <1>4, <1>5, <1>6, <1>7, <1>8 DEF AtaInv

LEMMA IssueStep ==
    ASSUME AtaInv, Issue
    PROVE  AtaInv'
<1>1. /\ Running /\ call' = [call EXCEPT !.polls = MaxPolls]
      /\ apc = "issue" /\ apc' = "wait"
      /\ UNCHANGED <<default_dev, functions, media, buf, calls, shadow, asked, lost, confused>>
  BY DEF Issue, ataHistory, Running
<1>2. Cur \in Lbas
  <2>1. call.lba \in Nat /\ call.c \in Nat
    BY DEF AtaInv, CallOK, CallRecord, Lbas
  <2> QED BY <2>1, AddressIs DEF Cur
<1>3. AtaTypeOK' /\ CallOK'
  <2>1. drive' \in [st : {"idle", "busy", "drq", "storing", "err"}, lba : Lbas,
                    op : {None, "read", "write"}, data : Value]
    BY <1>2 DEF Issue, AtaInv, AtaTypeOK, CallOK, CallRecord
  <2>2. AtaTypeOK'
    BY <1>1, <2>1, Limits DEF AtaInv, AtaTypeOK, CallOK, CallRecord
  <2>3. CallOK'
    BY <1>1, Limits DEF AtaInv, CallOK, CallRecord, Running
  <2> QED BY <2>2, <2>3
<1>4. Synchronized' /\ StoresTheLast'
  BY <1>1 DEF AtaInv, AtaTypeOK, CallOK, CallRecord, Synchronized, StoresTheLast, Issue, Cur, Running
<1>5. ReadsTheSectors' /\ WritesTheSectors'
  BY <1>1, <1>3 DEF AtaInv, AtaTypeOK, CallOK, CallRecord, ReadsTheSectors, WritesTheSectors, Issue
<1>6. WritesAsked' /\ OnlyAskedSectorsChange'
  <2>1. call.op = "write" => Cur \in asked
    BY <1>1 DEF AtaInv, CallOK, CallRecord, WritesAsked, Cur
  <2>2. /\ call'.op = call.op /\ call'.lba = call.lba /\ call'.count = call.count
        /\ Running'
    BY <1>1 DEF AtaInv, CallOK, CallRecord, Running
  <2>3. (/\ drive.st = "storing" => drive.op = "write"
         /\ drive.op = "write" => drive.lba \in asked)'
    BY <1>1, <2>1 DEF AtaInv, AtaTypeOK, WritesAsked, Issue
  <2>4. WritesAsked'
    BY <1>1, <2>2, <2>3 DEF AtaInv, WritesAsked
  <2>5. OnlyAskedSectorsChange'
    BY <1>1 DEF AtaInv, OnlyAskedSectorsChange
  <2> QED BY <2>4, <2>5
<1> QED BY <1>3, <1>4, <1>5, <1>6 DEF AtaInv

LEMMA PollStep ==
    ASSUME AtaInv, PollReady \/ PollAgain \/ AttemptFails
    PROVE  AtaInv'
<1>1. /\ UNCHANGED <<default_dev, functions, drive, media, buf, calls, shadow, asked, lost, confused>>
      /\ apc = "wait" /\ apc' \in {"wait", "issue", "move", "done"}
      /\ apc' = "move" => drive.st = "drq"
  BY DEF PollReady, PollAgain, AttemptFails, ataHistory
<1>2. \E a \in 0 .. Attempts - 1, p \in 0 .. MaxPolls :
        call' = [call EXCEPT !.attempt = a, !.polls = p]
  <2>1. CASE PollReady
    BY <2>1 DEF PollReady, AtaInv, AtaTypeOK, CallOK, CallRecord
  <2>2. CASE PollAgain
    <3>1. call' = [call EXCEPT !.attempt = call.attempt, !.polls = call.polls - 1]
      BY <2>2 DEF PollAgain, PollsLeft, AtaInv, CallOK, CallRecord
    <3>2. call.attempt \in 0 .. Attempts - 1 /\ call.polls - 1 \in 0 .. MaxPolls
      BY <2>2, Limits DEF PollAgain, AtaInv, AtaTypeOK, CallOK, CallRecord
    <3> QED BY <3>1, <3>2
  <2>3. CASE AttemptFails
    <3> DEFINE a == IF LastAttempt THEN call.attempt ELSE call.attempt + 1
    <3>1. call' = [call EXCEPT !.attempt = a, !.polls = 0]
      BY <2>3 DEF AttemptFails, AtaInv, CallOK, CallRecord
    <3>2. a \in 0 .. Attempts - 1 /\ 0 \in 0 .. MaxPolls
      BY <2>3, Limits DEF LastAttempt, AtaInv, AtaTypeOK, CallOK, CallRecord
    <3> QED BY <3>1, <3>2
  <2> QED BY <2>1, <2>2, <2>3
<1>3. PICK a \in 0 .. Attempts - 1, p \in 0 .. MaxPolls :
        call' = [call EXCEPT !.attempt = a, !.polls = p]
  BY <1>2
<1>4. AtaTypeOK' /\ CallOK'
  <2>1. AtaTypeOK'
    BY <1>1, <1>3, Limits DEF AtaInv, AtaTypeOK, CallOK, CallRecord, Running
  <2>2. CallOK'
    <3>1. call \in CallRecord /\ a \in Nat /\ p \in Nat
      BY Limits DEF AtaInv, CallOK
    <3>2. call' \in CallRecord
      BY <1>3, <3>1, CallRecordUpdate, Zenon
    <3>3. /\ call'.op = call.op /\ call'.lba = call.lba
          /\ call'.count = call.count /\ call'.c = call.c
      BY <1>3 DEF AtaInv, CallOK, CallRecord
    <3> QED BY <1>1, <3>2, <3>3 DEF AtaInv, CallOK, Running
  <2> QED BY <2>1, <2>2
<1>5. Synchronized' /\ StoresTheLast'
  BY <1>1, <1>3 DEF AtaInv, CallOK, CallRecord, Synchronized, StoresTheLast, Cur, Running
<1>6. ReadsTheSectors' /\ WritesTheSectors'
  BY <1>1, <1>3, <1>4 DEF AtaInv, CallOK, CallRecord, ReadsTheSectors, WritesTheSectors
<1>7. WritesAsked' /\ OnlyAskedSectorsChange'
  BY <1>1, <1>3 DEF AtaInv, CallOK, CallRecord, WritesAsked, OnlyAskedSectorsChange, Running
<1> QED BY <1>4, <1>5, <1>6, <1>7 DEF AtaInv

LEMMA MoveInStep ==
    ASSUME AtaInv, MoveIn
    PROVE  AtaInv'
<1> DEFINE x == IF drive.op = "read" THEN media[drive.lba] ELSE Garbage
<1>1. /\ apc = "move" /\ Running /\ call.op = "read" /\ drive.st = "drq"
      /\ buf' = Append(buf, x)
      /\ call' = [call EXCEPT !.c = call.c + 1, !.attempt = 0, !.polls = 0]
      /\ apc' = IF call.c + 1 = call.count THEN "done" ELSE "issue"
      /\ drive' = IF drive.op = "read" THEN [drive EXCEPT !.st = "idle"] ELSE drive
      /\ UNCHANGED <<default_dev, functions, media, calls, shadow, asked, lost, confused>>
  BY DEF MoveIn, AtaInv, Synchronized, Stored, NextSector, ataHistory, Running
<1>2. x \in Value
  BY Limits DEF AtaInv, AtaTypeOK, Value, Garbage
<1>3. AtaTypeOK' /\ CallOK'
  <2>0. call \in CallRecord /\ call.c + 1 \in Nat /\ 0 \in Nat
    BY DEF AtaInv, CallOK, CallRecord
  <2>1. call' \in CallRecord
    BY <1>1, <2>0, CallRecordUpdate, Zenon
  <2>2. /\ call'.op = call.op /\ call'.lba = call.lba /\ call'.count = call.count
        /\ call'.c = call.c + 1 /\ call'.attempt = 0 /\ call'.polls = 0
        /\ call.c + 1 \in 0 .. call.count
    BY <1>1 DEF AtaInv, CallOK, CallRecord
  <2>3. drive' \in [st : {"idle", "busy", "drq", "storing", "err"}, lba : Lbas,
                    op : {None, "read", "write"}, data : Value]
    BY <1>1 DEF AtaInv, AtaTypeOK
  <2>4. buf' \in Seq(Value)
    BY <1>1, <1>2 DEF AtaInv, AtaTypeOK, CallOK, CallRecord
  <2>5. AtaTypeOK'
    BY <1>1, <2>2, <2>3, <2>4, Limits DEF AtaInv, AtaTypeOK
  <2>6. (Running => call.op # None /\ call.c < call.count)'
    BY <1>1, <2>1, <2>2 DEF AtaInv, CallOK, CallRecord, Running
  <2>7. CallOK'
    BY <1>1, <2>1, <2>2, <2>4, <2>6 DEF AtaInv, CallOK, CallRecord
  <2> QED BY <2>5, <2>7
<1>4. Synchronized' /\ StoresTheLast'
  BY <1>1 DEF AtaInv, AtaTypeOK, CallOK, CallRecord, Synchronized, StoresTheLast, Running
<1>5. ReadsTheSectors'
  <2>1. SUFFICES ASSUME ~confused
                 PROVE  /\ Len(buf') = call.c + 1
                        /\ \A i \in 1 .. call.c + 1 : buf'[i] = media[Address(call.lba, i - 1)]
    BY <1>1 DEF AtaInv, CallOK, CallRecord, ReadsTheSectors
  <2>2. Len(buf) = call.c /\ \A i \in 1 .. call.c : buf[i] = media[Address(call.lba, i - 1)]
    BY <1>1, <2>1 DEF AtaInv, ReadsTheSectors
  <2>3. x = media[Address(call.lba, call.c)]
    BY <1>1, <2>1 DEF AtaInv, Synchronized, Cur
  <2>4. call.c \in Nat /\ call.lba \in Nat /\ buf \in Seq(Value)
    BY DEF AtaInv, CallOK, CallRecord, Lbas
  <2>5. \A i \in 1 .. call.c + 1 : i \in 1 .. call.c \/ (i = call.c + 1 /\ i - 1 = call.c)
    BY <2>4
  <2> QED BY <1>1, <1>2, <2>2, <2>3, <2>4, <2>5
<1>6. WritesTheSectors'
  BY <1>1, <1>3 DEF AtaInv, AtaTypeOK, WritesTheSectors
<1>7. WritesAsked' /\ OnlyAskedSectorsChange'
  BY <1>1 DEF AtaInv, AtaTypeOK, CallOK, CallRecord, WritesAsked, OnlyAskedSectorsChange, Running
<1> QED BY <1>3, <1>4, <1>5, <1>6, <1>7 DEF AtaInv

LEMMA MoveOutStep ==
    ASSUME AtaInv, MoveOut
    PROVE  AtaInv'
<1>1. /\ apc = "move" /\ Running /\ call.op = "write" /\ drive.st = "drq"
      /\ call' = [call EXCEPT !.c = call.c + 1, !.attempt = 0, !.polls = 0]
      /\ apc' = IF call.c + 1 = call.count THEN "done" ELSE "issue"
      /\ drive' = IF drive.op = "write"
                    THEN [drive EXCEPT !.st = "storing", !.data = <<calls, call.c>>] ELSE drive
      /\ shadow' = [shadow EXCEPT ![Cur] = <<calls, call.c>>]
      /\ UNCHANGED <<default_dev, functions, media, buf, calls, asked, lost, confused>>
  BY DEF MoveOut, AtaInv, Synchronized, SectorData, NextSector, Cur, Running
<1>2. Cur \in Lbas /\ <<calls, call.c>> \in Value
  <2>1. call.lba \in Nat /\ call.c \in Nat /\ calls \in 0 .. MaxCalls
    BY DEF AtaInv, CallOK, CallRecord, Lbas
  <2>2. Cur \in Lbas
    BY <2>1, AddressIs DEF Cur
  <2> QED BY <2>1, <2>2 DEF Value
<1>3. AtaTypeOK' /\ CallOK'
  <2>0. call \in CallRecord /\ call.c + 1 \in Nat /\ 0 \in Nat
    BY DEF AtaInv, CallOK, CallRecord
  <2>1. call' \in CallRecord
    BY <1>1, <2>0, CallRecordUpdate, Zenon
  <2>2. /\ call'.op = call.op /\ call'.lba = call.lba /\ call'.count = call.count
        /\ call'.c = call.c + 1 /\ call'.attempt = 0 /\ call'.polls = 0
        /\ call.c + 1 \in 0 .. call.count
    BY <1>1 DEF AtaInv, CallOK, CallRecord
  <2>3. drive' \in [st : {"idle", "busy", "drq", "storing", "err"}, lba : Lbas,
                    op : {None, "read", "write"}, data : Value]
    BY <1>1, <1>2 DEF AtaInv, AtaTypeOK
  <2>4. shadow' \in [Lbas -> Value]
    BY <1>1, <1>2 DEF AtaInv, AtaTypeOK, CallOK, CallRecord
  <2>5. AtaTypeOK'
    BY <1>1, <2>2, <2>3, <2>4, Limits DEF AtaInv, AtaTypeOK
  <2>6. (Running => call.op # None /\ call.c < call.count)'
    BY <1>1, <2>1, <2>2 DEF AtaInv, CallOK, CallRecord, Running
  <2>7. CallOK'
    BY <1>1, <2>1, <2>2, <2>4, <2>6 DEF AtaInv, CallOK, CallRecord
  <2> QED BY <2>5, <2>7
<1>4. ~confused => drive.op = "write" /\ drive.lba = Cur
  BY <1>1 DEF AtaInv, Synchronized
<1>5. Synchronized' /\ StoresTheLast'
  BY <1>1, <1>2, <1>4 DEF AtaInv, AtaTypeOK, CallOK, CallRecord, Synchronized, StoresTheLast, Running
<1>6. ReadsTheSectors'
  BY <1>1 DEF AtaInv, CallOK, CallRecord, ReadsTheSectors
<1>7. WritesTheSectors'
  BY <1>1, <1>2, <1>3, <1>4 DEF AtaInv, AtaTypeOK, WritesTheSectors
<1>8. WritesAsked' /\ OnlyAskedSectorsChange'
  BY <1>1 DEF AtaInv, AtaTypeOK, CallOK, CallRecord, WritesAsked, OnlyAskedSectorsChange, Running
<1> QED BY <1>3, <1>5, <1>6, <1>7, <1>8 DEF AtaInv

LEMMA DriveStep ==
    ASSUME AtaInv, DriveAnswers \/ DriveStores \/ DriveStoreFails
    PROVE  AtaInv'
<1>1. UNCHANGED <<default_dev, functions, apc, call, buf, calls, shadow, asked, confused>>
  BY DEF DriveAnswers, DriveStores, DriveStoreFails, driver, ataHistory
<1>2. AtaTypeOK' /\ CallOK'
  BY <1>1 DEF AtaInv, AtaTypeOK, CallOK, CallRecord, Running, DriveAnswers, DriveStores, DriveStoreFails, ataHistory
<1>3. Synchronized' /\ StoresTheLast'
  BY <1>1 DEF AtaInv, AtaTypeOK, Synchronized, StoresTheLast, Running, Cur,
              DriveAnswers, DriveStores, DriveStoreFails, ataHistory
<1>4. ReadsTheSectors'
  <2>1. CASE UNCHANGED media
    BY <1>1, <2>1 DEF AtaInv, ReadsTheSectors
  <2>2. CASE DriveStores
    BY <1>1, <2>2 DEF AtaInv, CallOK, CallRecord, ReadsTheSectors, StoresTheLast, DriveStores
  <2> QED BY <2>1, <2>2 DEF DriveAnswers, DriveStoreFails
<1>5. WritesTheSectors'
  <2>1. CASE DriveAnswers
    BY <1>1, <1>2, <2>1 DEF AtaInv, AtaTypeOK, WritesTheSectors, DriveAnswers, ataHistory
  <2>2. CASE DriveStores
    BY <1>1, <1>2, <2>2 DEF AtaInv, AtaTypeOK, StoresTheLast, WritesTheSectors, DriveStores
  <2>3. CASE DriveStoreFails
    BY <1>1, <1>2, <2>3 DEF AtaInv, AtaTypeOK, WritesTheSectors, DriveStoreFails
  <2> QED BY <2>1, <2>2, <2>3
<1>6. WritesAsked'
  BY <1>1 DEF AtaInv, AtaTypeOK, WritesAsked, Running, DriveAnswers, DriveStores, DriveStoreFails
<1>7. OnlyAskedSectorsChange'
  <2>1. CASE UNCHANGED media
    BY <1>1, <2>1 DEF AtaInv, OnlyAskedSectorsChange
  <2>2. CASE DriveStores
    BY <1>1, <2>2 DEF AtaInv, AtaTypeOK, WritesAsked, OnlyAskedSectorsChange, DriveStores
  <2> QED BY <2>1, <2>2 DEF DriveAnswers, DriveStoreFails
<1> QED BY <1>2, <1>3, <1>4, <1>5, <1>6, <1>7 DEF AtaInv

LEMMA AtaInductive == AtaInv /\ [AtaNext]_ataVars => AtaInv'
<1> SUFFICES ASSUME AtaInv, [AtaNext]_ataVars PROVE AtaInv'
  OBVIOUS
<1>1. CASE UNCHANGED ataVars
  BY <1>1 DEF ataVars, driver, ataHistory, AtaInv, AtaTypeOK, CallOK, CallRecord, Running, Synchronized,
              StoresTheLast, ReadsTheSectors, WritesTheSectors, Cur, WritesAsked,
              OnlyAskedSectorsChange
<1>2. CASE AtaNext
  BY <1>1, <1>2, BootStep, CallStep, IssueStep, PollStep, MoveInStep, MoveOutStep, DriveStep
     DEF AtaNext, CallRefused
<1> QED BY <1>1, <1>2

LEMMA AlwaysAtaInv == AtaSpec => []AtaInv
BY AtaInvInit, AtaInductive, PTL DEF AtaSpec

(* ata_read28 hands the caller the sectors it asked for, and counts them   *)
(* right, after whatever failed and repeated attempts.                     *)
THEOREM ReadCorrect == AtaSpec => []ReadsTheSectors
<1>1. AtaInv => ReadsTheSectors
  BY DEF AtaInv
<1> QED BY <1>1, AlwaysAtaInv, PTL

(* The disk holds what ata_write28 reported as written, except where the   *)
(* drive is still storing it or failed to, and nothing else changes.       *)
THEOREM WriteCorrect == AtaSpec => []WritesTheSectors
<1>1. AtaInv => WritesTheSectors
  BY DEF AtaInv
<1> QED BY <1>1, AlwaysAtaInv, PTL

(* Whatever fails and whichever call a late answer reaches, the disk       *)
(* changes only where some ata_write28 was told to write.                  *)
THEOREM OnlyAskedChange == AtaSpec => []OnlyAskedSectorsChange
<1>1. AtaInv => OnlyAskedSectorsChange
  BY DEF AtaInv
<1> QED BY <1>1, AlwaysAtaInv, PTL

-----------------------------------------------------------------------------
(* The FAT driver.                                                         *)
(* The inductive invariant.  Most of it holds as long as no sector read    *)
(* failed and no stale name was written.                                   *)
Good == ~misread /\ ~spoiled

Locals == [name : DiskNames, size : Nat, entry : 1 .. DirEntries,
           cluster : {0, EOC} \cup Clusters, first : {0} \cup Clusters,
           i : Nat, left : Nat]

Types ==
    /\ TypeOK
    /\ content \in [DiskNames -> [ver : Nat, size : Nat]]
    /\ writes \in Nat
    /\ {misread, spoiled, clean} \subseteq BOOLEAN
    /\ \A e \in Files : dir[e].name \in DiskNames
    /\ pc # "idle" => w \in Locals
    /\ pc = "free" => w.first = 0 /\ w.i = 0 /\ w.left = 0
    /\ pc = "link" => /\ w.size > 0 /\ w.left = w.size /\ w.cluster = w.first
                      /\ w.first \in 2 .. TotalClusters - Needed
                      /\ w.i \in 0 .. Needed - 1
    /\ pc = "data" => /\ w.size > 0 /\ w.left <= w.size
                      /\ w.i \in 0 .. SectorsPerCluster - 1
    /\ pc = "dir" => w.size > 0 \/ w.first = 0

History ==
    /\ clean => failed = {} /\ stale = {} /\ ~spoiled
    /\ pc # "idle" => failed \subseteq stale \cup {w.name}

(* The entry that is being written is the name's own or a free one.        *)
Named(e) == dir[e].kind \in {"file", "label"}
Slot ==
    /\ \/ Named(w.entry) /\ dir[w.entry].name = w.name
       \/ /\ dir[w.entry].kind \in {"end", "deleted"}
          /\ \A e \in 1 .. DirEntries : Named(e) => dir[e].name # w.name
    /\ \A f \in 1 .. w.entry - 1 :
         SectorOf(f) = SectorOf(w.entry) => dir[f].kind # "end"

DirInv == Orderly(dir) /\ (pc # "idle" => Slot)

(* The files that must not be harmed, and their clusters.                  *)
Intact == {e \in Files : dir[e].name \notin failed \cup Writing}
Taken == UNION {ClustersOf(e) : e \in Intact}

FilesInv ==
    /\ \A e \in Intact : Holds(fat, data, dir[e], content[dir[e].name])
    /\ \A e, f \in Intact : e # f => ClustersOf(e) \cap ClustersOf(f) = {}

CacheInv ==
    \A i \in 1 .. Len(cache) :
      cache[i].name \notin failed \cup Writing =>
        \E e \in Files : /\ dir[e].name = cache[i].name
                         /\ dir[e].first = cache[i].first
                         /\ dir[e].size = cache[i].size

(* A set of clusters that contains all that the write under way, or the    *)
(* next one of the name that failed last, can reach.                       *)
Run == w.first .. w.first + Needed - 1
Claimants == IF pc = "idle" THEN failed \ stale ELSE {w.name}
Claims(S) ==
    /\ \A c \in S : fat[c] \in Clusters => fat[c] \in S
    /\ S \cap Taken = {}
    /\ \A e \in Files : dir[e].name \in Claimants => dir[e].first \in S \cup {0}
    /\ pc \in {"free", "data"} => w.cluster \in S \cup {0, EOC}
    /\ pc \in {"link", "data", "dir"} => Run \subseteq S

(* How far the write is.                                                   *)
NewLink(j) == IF j + 1 = Needed THEN EOC ELSE w.first + j + 1
NewSector(off) ==
    [ver |-> writes, off |-> off,
     len |-> IF w.size - off < BytesPerSector THEN w.size - off ELSE BytesPerSector]
Offset(j, s) == j * ClusterSize + s * BytesPerSector
Progress ==
    /\ pc = "link" =>
         \A j \in 0 .. Needed - 1 : fat[w.first + j] = IF j < w.i THEN NewLink(j) ELSE 0
    /\ pc \in {"data", "dir"} =>
         /\ \A j \in 0 .. Needed - 1 : fat[w.first + j] = NewLink(j)
         /\ \A j \in 0 .. Needed - 1, s \in 0 .. SectorsPerCluster - 1 :
              Offset(j, s) < w.size - w.left => data[w.first + j][s] = NewSector(Offset(j, s))
         /\ w.left > 0 => \E j \in 0 .. Needed - 1 : /\ w.cluster = w.first + j
                                                     /\ w.size - w.left = Offset(j, w.i)
    /\ pc = "dir" => w.left = 0

(* Every cluster in use belongs to an intact file or to the write.         *)
Held == IF pc = "idle" THEN {}
        ELSE IF pc = "free" THEN ClustersFrom(fat, w.cluster)
        ELSE IF pc = "link" THEN w.first .. w.first + w.i - 1
        ELSE Run
NoLeak ==
    /\ {c \in Clusters : fat[c] # 0} = Taken \cup Held
    /\ pc = "free" => /\ Chained(fat, w.cluster, Chain(fat, w.cluster))
                      /\ Held \cap Taken = {}

GoodInv ==
    /\ DirInv /\ FilesInv /\ CacheInv /\ Progress
    /\ \E S \in SUBSET Clusters : Claims(S)

Inv ==
    /\ Types /\ History
    /\ Good => GoodInv
    /\ clean /\ ~misread => NoLeak

------------------------------------------------------------------------------
LEMMA FatConstants ==
    /\ TotalClusters \in Nat \ {0} /\ BytesPerSector \in Nat \ {0}
    /\ SectorsPerCluster \in Nat \ {0} /\ DirEntries \in Nat \ {0}
    /\ CacheMax \in Nat \ {0} /\ Sizes \subseteq Nat
BY FatAssumption

LEMMA ClusterFacts ==
    /\ Clusters \subseteq Nat /\ 0 \notin Clusters /\ EOC \notin Clusters
    /\ \A c \in {0, EOC} \cup Clusters : InChain(c) <=> c \in Clusters
    /\ \A c \in Clusters : c # 0 /\ c # EOC
    /\ EOC # 0
BY FatAssumption DEF Clusters, InChain, EOC

LEMMA ClusterSizeIs == ClusterSize \in Nat \ {0}
BY FatConstants DEF ClusterSize

------------------------------------------------------------------------------
(* Chains.  The hops that Chain follows are those of a sequence that the   *)
(* FAT links.                                                              *)
Fats == [Clusters -> {0, EOC} \cup Clusters]

LEMMA ChainIs ==
    ASSUME NEW f \in Fats, NEW first, NEW s, Chained(f, first, s)
    PROVE  Chain(f, first) = s
<1> DEFINE n == Len(s)
           D == 0 .. TotalClusters
           body(h, i) == IF i = 0 THEN first
                         ELSE IF h[i - 1] \in Clusters THEN f[h[i - 1]] ELSE 0
           g == CHOOSE h : h = [i \in D |-> body(h, i)]
           h == [i \in D |-> IF i < n THEN s[i + 1]
                             ELSE IF i = n THEN IF n = 0 THEN first ELSE EOC ELSE 0]
<1>1. /\ TotalClusters \in Nat /\ 0 \notin Clusters /\ EOC \notin Clusters
      /\ n \in Nat /\ n <= TotalClusters /\ s \in Seq(Clusters)
  BY FatConstants, ClusterFacts DEF Chained
<1>2. /\ n = 0 => first \notin Clusters
      /\ n > 0 => s[1] = first /\ f[s[n]] = EOC
      /\ \A i \in 1 .. n - 1 : f[s[i]] = s[i + 1]
  <2>1. s = <<>> <=> n = 0
    BY <1>1
  <2> QED BY <2>1 DEF Chained
<1>3. ASSUME NEW i \in 1 .. n PROVE s[i] \in Clusters
  BY <1>1
<1>4. ASSUME NEW i \in D PROVE h[i] = body(h, i)
  <2>1. CASE i = 0
    BY <1>1, <1>2, <2>1
  <2>2. CASE i > 0 /\ i < n
    <3>1. i - 1 \in D /\ i - 1 < n /\ i \in 1 .. n - 1
      BY <1>1, <2>2
    <3>2. h[i - 1] = s[i] /\ h[i] = s[i + 1]
      BY <3>1, <2>2
    <3>3. s[i] \in Clusters
      BY <1>3, <3>1
    <3> HIDE DEF h
    <3> QED BY <1>2, <2>2, <3>1, <3>2, <3>3
  <2>3. CASE i > 0 /\ i = n
    <3>1. i - 1 \in D /\ i - 1 < n /\ i \in 1 .. n
      BY <1>1, <2>3
    <3>2. h[i - 1] = s[i] /\ h[i] = EOC
      BY <3>1, <2>3
    <3>3. s[i] \in Clusters
      BY <1>3, <3>1
    <3> HIDE DEF h
    <3> QED BY <1>2, <2>3, <3>1, <3>2, <3>3
  <2>4. CASE i > n
    <3>1. i - 1 \in D /\ i # 0
      BY <1>1, <2>4
    <3>2. h[i - 1] \notin Clusters /\ h[i] = 0
      BY <1>1, <1>2, <3>1, <2>4
    <3> HIDE DEF h
    <3> QED BY <3>1, <3>2
  <2> QED BY <1>1, <2>1, <2>2, <2>3, <2>4
<1>5. h = [i \in D |-> body(h, i)]
  <2>1. h = [i \in D |-> h[i]]
    OBVIOUS
  <2> HIDE DEF h
  <2> QED BY <1>4, <2>1, Zenon
<1>6. g = [i \in D |-> body(g, i)]
  <2> HIDE DEF h
  <2> QED BY <1>5, Zenon
<1> HIDE DEF g
<1>7. ASSUME NEW i \in D PROVE g[i] = body(g, i)
  BY <1>6, Zenon
<1>8. \A i \in D : g[i] = h[i]
  <2> DEFINE B == {i \in D : g[i] # h[i]}
  <2>1. SUFFICES ASSUME B # {} PROVE FALSE
    OBVIOUS
  <2>2. PICK m \in B : \A k \in B : m <= k
    <3>1. B \subseteq Nat
      OBVIOUS
    <3> HIDE DEF B
    <3> QED BY <2>1, <3>1, LeastNatural
  <2>3. m \in D /\ g[m] # h[m]
    OBVIOUS
  <2> HIDE DEF h
  <2>4. m # 0
    BY <1>4, <1>7, <2>3
  <2>5. m - 1 \in D /\ ~(m <= m - 1)
    BY <1>1, <2>3, <2>4
  <2>6. g[m - 1] = h[m - 1]
    BY <2>2, <2>5
  <2>7. body(g, m) = body(h, m)
    BY <2>6
  <2> HIDE DEF body
  <2> QED BY <1>4, <1>7, <2>3, <2>7
<1> DEFINE I == {i \in D : \A j \in 0 .. i : g[j] \in Clusters}
<1>9. I = 0 .. n - 1
  <2>1. ASSUME NEW i \in 0 .. n - 1 PROVE i \in I
    <3>1. i \in D /\ \A j \in 0 .. i : j \in D /\ j < n
      BY <1>1
    <3>2. ASSUME NEW j \in 0 .. i PROVE g[j] \in Clusters
      <4>1. j \in D /\ j < n /\ j + 1 \in 1 .. n
        BY <1>1, <3>1
      <4>2. h[j] = s[j + 1]
        BY <4>1
      <4> HIDE DEF h
      <4> QED BY <1>3, <1>8, <4>1, <4>2
    <3> QED BY <3>1, <3>2
  <2>2. ASSUME NEW i \in I PROVE i \in 0 .. n - 1
    <3>1. i \in D /\ \A j \in 0 .. i : g[j] \in Clusters
      OBVIOUS
    <3>2. h[n] \notin Clusters /\ n \in D
      BY <1>1, <1>2
    <3>3. n \notin 0 .. i
      <4> HIDE DEF h
      <4> QED BY <1>8, <3>1, <3>2
    <3> QED BY <1>1, <3>1, <3>3
  <2> HIDE DEF I
  <2> QED BY <2>1, <2>2
<1>10. Cardinality(I) = n
  <2>1. Cardinality(0 .. n - 1) = n
    <3>1. 0 \in Int /\ n - 1 \in Int
      BY <1>1
    <3>2. Cardinality(0 .. n - 1) = IF 0 > n - 1 THEN 0 ELSE n - 1 - 0 + 1
      BY <3>1, FS_Interval
    <3> QED BY <1>1, <3>2
  <2> QED BY <1>9, <2>1
<1>11. Chain(f, first) = [i \in 1 .. Cardinality(I) |-> g[i - 1]]
  BY DEF Chain, g
<1>12. Chain(f, first) = [i \in 1 .. n |-> g[i - 1]]
  <2> HIDE DEF I, g
  <2> QED BY <1>10, <1>11
<1>13. ASSUME NEW i \in 1 .. n PROVE g[i - 1] = s[i]
  <2>1. i - 1 \in D /\ i - 1 < n
    BY <1>1
  <2>2. h[i - 1] = s[i]
    BY <2>1
  <2> HIDE DEF h
  <2> QED BY <1>8, <2>1, <2>2
<1>14. s = [i \in 1 .. n |-> s[i]]
  BY <1>1
<1> HIDE DEF n
<1> QED BY <1>12, <1>13, <1>14, Zenon

(* A chain stays one while its own entries of the FAT stay.                *)
LEMMA ChainKept ==
    ASSUME NEW f, NEW f2, NEW first, NEW s, Chained(f, first, s),
           \A i \in 1 .. Len(s) : f2[s[i]] = f[s[i]]
    PROVE  Chained(f2, first, s)
<1>1. s \in Seq(Clusters) /\ Len(s) \in Nat /\ (s # <<>> => Len(s) \in 1 .. Len(s))
  BY DEF Chained
<1> QED BY <1>1 DEF Chained

LEMMA NoChain ==
    ASSUME NEW f \in Fats, NEW first, first \notin Clusters
    PROVE  Chained(f, first, <<>>) /\ Chain(f, first) = <<>> /\ ClustersFrom(f, first) = {}
<1>1. Chained(f, first, <<>>)
  BY FatConstants DEF Chained
<1>2. Chain(f, first) = <<>>
  BY <1>1, ChainIs
<1> QED BY <1>1, <1>2 DEF ClustersFrom

(* Clearing the first entry of a chain leaves the chain of its successor.  *)
LEMMA ChainTail ==
    ASSUME NEW f \in Fats, NEW c \in Clusters, NEW s, Chained(f, c, s)
    PROVE  /\ s # <<>> /\ s[1] = c
           /\ Chained([f EXCEPT ![c] = 0], f[c], Tail(s))
<1> DEFINE f2 == [f EXCEPT ![c] = 0]
           t == Tail(s)
<1>1. /\ s # <<>> /\ s[1] = c /\ s \in Seq(Clusters) /\ Len(s) \in Nat /\ Len(s) > 0
      /\ Len(s) <= TotalClusters /\ TotalClusters \in Nat
  BY FatConstants DEF Chained
<1>2. /\ t \in Seq(Clusters) /\ Len(t) = Len(s) - 1
      /\ \A i \in 1 .. Len(t) : t[i] = s[i + 1]
  BY <1>1
<1>3. ASSUME NEW i \in 1 .. Len(t) PROVE f2[t[i]] = f[s[i + 1]] /\ s[i + 1] # c
  <2>1. i + 1 \in 1 .. Len(s) /\ 1 \in 1 .. Len(s) /\ i + 1 # 1
    BY <1>1, <1>2
  <2>2. s[i + 1] # s[1]
    BY <2>1 DEF Chained
  <2>3. t[i] \in Clusters /\ t[i] = s[i + 1]
    BY <1>2
  <2> QED BY <1>1, <2>2, <2>3 DEF Fats
<1> HIDE DEF t, f2
<1>4. CASE Len(t) = 0
  <2>1. t = <<>> /\ Len(s) = 1
    BY <1>1, <1>2, <1>4
  <2>2. f[c] = EOC
    BY <1>1, <2>1 DEF Chained
  <2>3. f[c] \notin Clusters
    BY <2>2, ClusterFacts
  <2>4. Chained(f2, f[c], t)
    BY <1>1, <2>1, <2>3 DEF Chained
  <2> QED BY <1>1, <2>4 DEF t, f2
<1>5. CASE Len(t) # 0
  <2>1. t # <<>> /\ Len(t) \in 1 .. Len(t) /\ 1 \in 1 .. Len(t) /\ 1 \in 1 .. Len(s) - 1
    BY <1>1, <1>2, <1>5
  <2>2. t[1] = f[c]
    <3>1. f[s[1]] = s[2] /\ t[1] = s[2]
      BY <1>2, <2>1 DEF Chained
    <3> QED BY <1>1, <3>1
  <2>3. f2[t[Len(t)]] = EOC
    <3>1. f2[t[Len(t)]] = f[s[Len(t) + 1]] /\ Len(t) + 1 = Len(s)
      BY <1>1, <1>2, <1>3, <2>1
    <3> QED BY <1>1, <3>1 DEF Chained
  <2>4. ASSUME NEW i \in 1 .. Len(t) - 1 PROVE f2[t[i]] = t[i + 1]
    <3>1. i \in 1 .. Len(t) /\ i + 1 \in 1 .. Len(t) /\ i + 1 \in 1 .. Len(s) - 1
      BY <1>1, <1>2
    <3>2. f[s[i + 1]] = s[(i + 1) + 1] /\ t[i + 1] = s[(i + 1) + 1]
      BY <1>2, <3>1 DEF Chained
    <3> QED BY <1>3, <3>1, <3>2
  <2>5. ASSUME NEW i \in 1 .. Len(t), NEW j \in 1 .. Len(t), t[i] = t[j] PROVE i = j
    <3>1. i + 1 \in 1 .. Len(s) /\ j + 1 \in 1 .. Len(s) /\ s[i + 1] = s[j + 1]
      BY <1>1, <1>2, <2>5
    <3>2. i + 1 = j + 1
      BY <3>1 DEF Chained
    <3> QED BY <3>2
  <2>6. Chained(f2, f[c], t)
    BY <1>1, <1>2, <2>1, <2>2, <2>3, <2>4, <2>5 DEF Chained
  <2> QED BY <1>1, <2>6 DEF t, f2
<1> QED BY <1>2, <1>4, <1>5

(* What a chain consists of.                                               *)
LEMMA ClustersFromIs ==
    ASSUME NEW f \in Fats, NEW first, NEW s, Chained(f, first, s)
    PROVE  ClustersFrom(f, first) = {s[i] : i \in 1 .. Len(s)}
<1>1. Chain(f, first) = s /\ DOMAIN s = 1 .. Len(s)
  BY ChainIs DEF Chained
<1> QED BY <1>1 DEF ClustersFrom

LEMMA ChainFacts ==
    ASSUME NEW f \in Fats, NEW first, NEW s, Chained(f, first, s)
    PROVE  /\ first \in Clusters => first \in ClustersFrom(f, first)
           /\ \A c \in ClustersFrom(f, first) :
                /\ c \in Clusters /\ f[c] # 0
                /\ f[c] \in Clusters => f[c] \in ClustersFrom(f, first)
<1>1. /\ s \in Seq(Clusters) /\ Len(s) \in Nat
      /\ ClustersFrom(f, first) = {s[i] : i \in 1 .. Len(s)}
  BY ClustersFromIs DEF Chained
<1>2. ASSUME first \in Clusters PROVE first \in ClustersFrom(f, first)
  <2>1. s # <<>> /\ s[1] = first
    BY <1>2 DEF Chained
  <2>2. 1 \in 1 .. Len(s)
    BY <1>1, <2>1
  <2> QED BY <1>1, <2>1, <2>2
<1>3. ASSUME NEW i \in 1 .. Len(s)
      PROVE  s[i] \in Clusters /\ (f[s[i]] = EOC \/ \E j \in 1 .. Len(s) : f[s[i]] = s[j])
  <2>1. s[i] \in Clusters
    BY <1>1
  <2>2. CASE i = Len(s)
    <3>1. s # <<>>
      BY <1>1, <2>2
    <3> QED BY <2>1, <2>2, <3>1 DEF Chained
  <2>3. CASE i # Len(s)
    <3>1. i \in 1 .. Len(s) - 1 /\ i + 1 \in 1 .. Len(s)
      BY <1>1, <2>3
    <3>2. f[s[i]] = s[i + 1]
      BY <3>1 DEF Chained
    <3> QED BY <2>1, <3>1, <3>2
  <2> QED BY <2>2, <2>3
<1>4. ASSUME NEW c \in ClustersFrom(f, first)
      PROVE  /\ c \in Clusters /\ f[c] # 0
             /\ f[c] \in Clusters => f[c] \in ClustersFrom(f, first)
  <2>1. PICK i \in 1 .. Len(s) : c = s[i]
    BY <1>1
  <2>2. c \in Clusters /\ (f[c] = EOC \/ \E j \in 1 .. Len(s) : f[c] = s[j])
    BY <1>3, <2>1
  <2>3. ASSUME NEW j \in 1 .. Len(s), f[c] = s[j]
        PROVE  f[c] \in Clusters /\ f[c] \in ClustersFrom(f, first)
    BY <1>1, <1>3, <2>3
  <2> QED BY <2>2, <2>3, ClusterFacts
<1> QED BY <1>2, <1>4

(* A run of clusters that are linked one to the next.                      *)
RunSeq(first, n) == [i \in 1 .. n |-> first + i - 1]

LEMMA RunChained ==
    ASSUME NEW f \in Fats, NEW n \in Nat \ {0}, NEW first \in 2 .. TotalClusters + 2 - n,
           \A j \in 0 .. n - 1 : f[first + j] = IF j + 1 = n THEN EOC ELSE first + j + 1
    PROVE  /\ Chained(f, first, RunSeq(first, n)) /\ Chain(f, first) = RunSeq(first, n)
           /\ Len(RunSeq(first, n)) = n
           /\ ClustersFrom(f, first) = first .. first + n - 1
<1> DEFINE s == RunSeq(first, n)
<1>1. /\ TotalClusters \in Nat /\ first \in Nat
      /\ \A i \in 1 .. n : first + i - 1 \in Clusters
  BY FatConstants DEF Clusters
<1>2. /\ s \in Seq(Clusters) /\ Len(s) = n /\ s # <<>>
      /\ \A i \in 1 .. n : s[i] = first + i - 1
  BY <1>1 DEF RunSeq
<1> HIDE DEF s
<1>3. s[1] = first /\ f[s[n]] = EOC /\ n <= TotalClusters
  <2>1. 1 \in 1 .. n /\ n \in 1 .. n /\ n - 1 \in 0 .. n - 1 /\ (n - 1) + 1 = n
    OBVIOUS
  <2>2. s[1] = first /\ s[n] = first + (n - 1)
    BY <1>1, <1>2, <2>1
  <2>3. f[first + (n - 1)] = EOC
    BY <2>1
  <2> QED BY <1>1, <2>2, <2>3
<1>4. ASSUME NEW i \in 1 .. n - 1 PROVE f[s[i]] = s[i + 1]
  <2>1. i \in 1 .. n /\ i + 1 \in 1 .. n /\ i - 1 \in 0 .. n - 1 /\ (i - 1) + 1 # n
    OBVIOUS
  <2>2. s[i] = first + (i - 1) /\ s[i + 1] = first + (i - 1) + 1
    BY <1>1, <1>2, <2>1
  <2>3. f[first + (i - 1)] = first + (i - 1) + 1
    BY <2>1
  <2> QED BY <2>2, <2>3
<1>5. ASSUME NEW i \in 1 .. n, NEW j \in 1 .. n, s[i] = s[j] PROVE i = j
  BY <1>1, <1>2, <1>5
<1>6. Chained(f, first, s)
  BY <1>2, <1>3, <1>4, <1>5 DEF Chained
<1>7. Chain(f, first) = s /\ ClustersFrom(f, first) = {s[i] : i \in 1 .. n}
  BY <1>2, <1>6, ChainIs, ClustersFromIs
<1>8. {s[i] : i \in 1 .. n} = first .. first + n - 1
  <2>1. ASSUME NEW c \in first .. first + n - 1 PROVE \E i \in 1 .. n : c = s[i]
    <3>1. c - first + 1 \in 1 .. n
      BY <1>1
    <3>2. s[c - first + 1] = first + (c - first + 1) - 1
      BY <1>2, <3>1
    <3> QED BY <1>1, <3>1, <3>2
  <2>2. ASSUME NEW i \in 1 .. n PROVE s[i] \in first .. first + n - 1
    BY <1>1, <1>2
  <2> QED BY <2>1, <2>2
<1> QED BY <1>2, <1>6, <1>7, <1>8 DEF s

------------------------------------------------------------------------------
(* Sizes: how many clusters a file needs and where its bytes are.          *)
LEMMA NeedsIs ==
    ASSUME NEW size \in Nat
    PROVE  /\ Needs(size) \in Nat
           /\ size = 0 => Needs(size) = 0
           /\ size > 0 => Needs(size) > 0
           /\ size <= Needs(size) * ClusterSize
           /\ Needs(size) * ClusterSize < size + ClusterSize
<1>1. PICK d \in Nat \ {0} : d = ClusterSize
  BY ClusterSizeIs
<1>2. PICK n \in Nat : /\ n = (size + d - 1) \div d
                        /\ n * d <= size + d - 1 /\ size + d - 1 < n * d + d
  BY DivIs
<1>3. Needs(size) = n /\ n * d \in Nat
  BY <1>1, <1>2 DEF Needs
<1>4. size = 0 => n = 0
  <2>1. n > 0 => 0 * d + d <= n * d
    BY MulMono
  <2> QED BY <1>2, <1>3, <2>1
<1>5. size > 0 => n > 0
  BY <1>2
<1> QED BY <1>1, <1>2, <1>3, <1>4, <1>5

(* The place of byte k: cluster j of the chain, sector s of it, byte o.    *)
LEMMA PlaceOf ==
    ASSUME NEW size \in Nat, NEW k \in 0 .. size - 1
    PROVE  \E j \in 0 .. Needs(size) - 1, s \in 0 .. SectorsPerCluster - 1,
              o \in 0 .. BytesPerSector - 1 :
             /\ k = Offset(j, s) + o /\ Offset(j, s) \in Nat
             /\ k \div ClusterSize = j
             /\ (k % ClusterSize) \div BytesPerSector = s
             /\ k % BytesPerSector = o
<1>1. PICK C \in Nat \ {0}, B \in Nat \ {0}, P \in Nat \ {0}, N \in Nat :
        /\ C = ClusterSize /\ B = BytesPerSector /\ P = SectorsPerCluster /\ C = B * P
        /\ N = Needs(size) /\ size <= N * C
  BY FatConstants, ClusterSizeIs, NeedsIs DEF ClusterSize
<1>2. PICK j \in Nat : j = k \div C /\ j * C <= k /\ k < j * C + C
  BY DivIs
<1>3. j * C \in Nat /\ k - j * C \in 0 .. C - 1
  BY <1>2
<1>4. PICK r \in 0 .. C - 1 : r = k - j * C /\ k = j * C + r
  BY <1>3
<1>5. k % C = r
  <2>1. k \in Nat /\ r \in 0 .. C - 1 /\ k = j * C + r
    BY <1>4
  <2> QED BY <2>1, DivUnique
<1>6. PICK s \in Nat : s = r \div B /\ s * B <= r /\ r < s * B + B
  <2>1. r \in Nat
    OBVIOUS
  <2> QED BY <2>1, DivIs
<1>7. s < P
  <2>1. ~(s < P) => P * B <= s * B
    <3>1. P < s => P * B + B <= s * B
      BY MulMono
    <3> QED BY <3>1
  <2>2. P * B = C
    BY <1>1
  <2> QED BY <1>4, <1>6, <2>1, <2>2
<1>8. j < N
  <2>1. N < j => N * C + C <= j * C
    BY MulMono
  <2>2. N * C \in Nat /\ k < size
    OBVIOUS
  <2> QED BY <1>1, <1>2, <1>3, <2>1, <2>2
<1>9. PICK o \in 0 .. B - 1 : o = r - s * B
  <2>1. s * B \in Nat
    OBVIOUS
  <2> QED BY <1>6, <2>1
<1>10. k = (j * P + s) * B + o
  <2>1. (j * P + s) * B = (j * P) * B + s * B
    OBVIOUS
  <2>2. (j * P) * B = j * (B * P)
    OBVIOUS
  <2>3. j * (B * P) = j * C
    BY <1>1
  <2>4. s * B \in Nat /\ o \in Nat
    OBVIOUS
  <2> QED BY <1>3, <1>4, <1>9, <2>1, <2>2, <2>3, <2>4
<1>11. k % B = o
  <2>1. j * P + s \in Nat /\ k \in Nat
    OBVIOUS
  <2> QED BY <1>10, <2>1, DivUnique
<1>12. Offset(j, s) = j * C + s * B /\ j * C + s * B \in Nat
  BY <1>1 DEF Offset
<1>13. k = Offset(j, s) + o
  BY <1>3, <1>4, <1>9, <1>12
<1>14. j \in 0 .. N - 1 /\ s \in 0 .. P - 1
  BY <1>7, <1>8
<1> QED BY <1>1, <1>2, <1>5, <1>6, <1>11, <1>12, <1>13, <1>14

------------------------------------------------------------------------------
(* The directory.                                                          *)
LEMMA SmallestIs ==
    ASSUME NEW S, S \subseteq Nat, S # {}
    PROVE  Min(S) \in S /\ \A y \in S : Min(S) <= y
<1>1. \E x \in S : \A y \in S : x <= y
  BY LeastNatural
<1> QED BY <1>1 DEF Min

LEMMA SectorWithin ==
    ASSUME NEW e \in 1 .. DirEntries
    PROVE  SectorOf(e) <= DirSectors
<1>1. PICK d \in Nat \ {0}, n \in Nat \ {0} : d = EntriesPerSector /\ n = DirEntries
  BY FatAssumption
<1>2. PICK a \in Nat : a = (e - 1) \div d /\ a * d <= e - 1 /\ e - 1 < a * d + d
  <2>1. PICK x \in Nat : x = e - 1
    BY <1>1
  <2>2. x \div d \in Nat /\ (x \div d) * d <= x /\ x < (x \div d) * d + d
    BY DivIs
  <2> QED BY <2>1, <2>2
<1>3. PICK b \in Nat : b = (n - 1) \div d /\ b * d <= n - 1 /\ n - 1 < b * d + d
  <2>1. PICK x \in Nat : x = n - 1
    OBVIOUS
  <2>2. x \div d \in Nat /\ (x \div d) * d <= x /\ x < (x \div d) * d + d
    BY DivIs
  <2> QED BY <2>1, <2>2
<1>4. ~(b < a)
  <2>1. b < a => b * d + d <= a * d
    BY MulMono
  <2>2. a * d \in Nat /\ b * d \in Nat
    OBVIOUS
  <2> QED BY <1>1, <1>2, <1>3, <2>1, <2>2
<1> QED BY <1>1, <1>2, <1>3, <1>4 DEF SectorOf, DirSectors

LEMMA VisibleNamed ==
    ASSUME Orderly(dir), NEW e \in 1 .. DirEntries, dir[e].kind # "end"
    PROVE  e \in Visible(dir, DirSectors)
<1>1. SectorOf(e) <= DirSectors
  BY SectorWithin
<1>2. ASSUME NEW f \in 1 .. e - 1, SectorOf(f) = SectorOf(e) PROVE dir[f].kind # "end"
  <2>1. f \in 1 .. DirEntries /\ f < e
    BY FatConstants
  <2> QED BY <1>2, <2>1 DEF Orderly
<1> QED BY <1>1, <1>2 DEF Visible

(* fat_find_root_entry.                                                    *)
LEMMA FindIs ==
    ASSUME NEW name, NEW k, NEW r, r = FindRootEntry(name, k), r[1] >= 0
    PROVE  /\ r[1] \in {0, 1} /\ r[2] \in 1 .. DirEntries
           /\ \A f \in 1 .. r[2] - 1 : SectorOf(f) = SectorOf(r[2]) => dir[f].kind # "end"
           /\ r[1] = 1 => Named(r[2]) /\ dir[r[2]].name = name
           /\ r[1] = 0 => /\ dir[r[2]].kind \in {"end", "deleted"}
                          /\ k = DirSectors /\ Orderly(dir) =>
                               \A e \in 1 .. DirEntries : Named(e) => dir[e].name # name
<1> DEFINE match == {e \in Visible(dir, k) :
                       dir[e].kind \in {"file", "label"} /\ dir[e].name = name}
           free == {e \in Visible(dir, k) : dir[e].kind \in {"end", "deleted"}}
<1>1. match \subseteq Nat /\ free \subseteq Nat
  BY DEF Visible
<1>2. r = IF match # {} THEN <<1, Min(match)>>
          ELSE IF free # {} THEN <<0, Min(free)>> ELSE <<-1, 0>>
  BY DEF FindRootEntry
<1>3. ASSUME NEW e \in Visible(dir, k)
      PROVE  /\ e \in 1 .. DirEntries
             /\ \A f \in 1 .. e - 1 : SectorOf(f) = SectorOf(e) => dir[f].kind # "end"
  BY DEF Visible
<1>4. CASE match # {}
  <2>1. r[1] = 1 /\ r[2] = Min(match)
    BY <1>2, <1>4
  <2>2. r[2] \in match
    <3> HIDE DEF match
    <3> QED BY <1>1, <1>4, <2>1, SmallestIs
  <2>3. r[2] \in Visible(dir, k) /\ Named(r[2]) /\ dir[r[2]].name = name
    BY <2>2 DEF Named
  <2> HIDE DEF match, free
  <2> QED BY <1>3, <2>1, <2>3
<1>5. CASE match = {}
  <2>1. free # {}
    BY <1>2, <1>5
  <2>2. r[1] = 0 /\ r[2] = Min(free)
    BY <1>2, <1>5, <2>1
  <2>3. r[2] \in free
    <3> HIDE DEF free
    <3> QED BY <1>1, <2>1, <2>2, SmallestIs
  <2>4. ASSUME k = DirSectors, Orderly(dir), NEW e \in 1 .. DirEntries, Named(e)
        PROVE  dir[e].name # name
    <3>1. dir[e].kind # "end"
      BY <2>4 DEF Named
    <3>2. e \in Visible(dir, k)
      BY <2>4, <3>1, VisibleNamed
    <3> QED BY <1>5, <2>4, <3>2 DEF Named
  <2>5. r[2] \in Visible(dir, k) /\ dir[r[2]].kind \in {"end", "deleted"}
    BY <2>3
  <2> HIDE DEF match, free
  <2> QED BY <1>3, <2>2, <2>4, <2>5
<1> QED BY <1>4, <1>5

(* The i-th of a set of numbers.                                           *)
LEMMA NthExists ==
    ASSUME NEW D \in Nat, NEW F, F \subseteq 1 .. D, NEW i \in 1 .. Cardinality(F)
    PROVE  \E e \in F : Cardinality({f \in F : f < e}) = i - 1
<1> DEFINE Below(m) == {f \in F : f < m}
           B == {m \in 1 .. D + 1 : Cardinality(Below(m)) >= i}
<1>1. IsFiniteSet(F) /\ Cardinality(F) \in Nat
  <2>1. IsFiniteSet(1 .. D)
    BY FS_Interval
  <2>2. IsFiniteSet(F)
    BY <2>1, FS_Subset
  <2> QED BY <2>2, FS_CardinalityType
<1>2. ASSUME NEW m PROVE IsFiniteSet(Below(m)) /\ Cardinality(Below(m)) \in Nat
  <2>1. Below(m) \subseteq F
    OBVIOUS
  <2>2. IsFiniteSet(Below(m))
    <3> HIDE DEF Below
    <3> QED BY <1>1, <2>1, FS_Subset
  <2> HIDE DEF Below
  <2> QED BY <2>2, FS_CardinalityType
<1>0. ASSUME NEW f \in F PROVE f \in 1 .. D
  OBVIOUS
<1>3. D + 1 \in B
  <2>1. Below(D + 1) = F
    <3>1. ASSUME NEW f \in F PROVE f < D + 1
      BY <1>0
    <3> QED BY <3>1
  <2> HIDE DEF Below
  <2> QED BY <1>1, <2>1
<1>4. PICK m \in B : \A n \in B : m <= n
  <2>1. B \subseteq Nat /\ B # {}
    BY <1>3
  <2> HIDE DEF B
  <2> QED BY <2>1, LeastNatural
<1>5. m \in 1 .. D + 1 /\ Cardinality(Below(m)) >= i
  OBVIOUS
<1>6. m # 1
  <2>1. Below(1) = {}
    <3>1. ASSUME NEW f \in F PROVE ~(f < 1)
      BY <1>0
    <3> QED BY <3>1
  <2>2. Cardinality(Below(1)) = 0
    <3> HIDE DEF Below
    <3> QED BY <2>1, FS_EmptySet
  <2> HIDE DEF Below
  <2> QED BY <1>1, <1>5, <2>2
<1>7. PICK e \in 1 .. D : m = e + 1
  BY <1>5, <1>6
<1>8. Cardinality(Below(e)) < i
  <2>1. e \in 1 .. D + 1 /\ ~(m <= e)
    BY <1>7
  <2>2. e \notin B
    <3> HIDE DEF B
    <3> QED BY <1>4, <2>1
  <2>3. ~(Cardinality(Below(e)) >= i)
    BY <2>1, <2>2
  <2> HIDE DEF Below
  <2> QED BY <1>1, <1>2, <2>3
<1>9. CASE e \notin F
  <2>1. Below(m) = Below(e)
    <3>1. ASSUME NEW f \in F PROVE f < m <=> f < e
      BY <1>0, <1>7, <1>9
    <3> QED BY <3>1
  <2> HIDE DEF Below
  <2> QED BY <1>1, <1>2, <1>5, <1>8, <2>1
<1>10. CASE e \in F
  <2>1. Below(m) = Below(e) \cup {e} /\ e \notin Below(e)
    <3>1. ASSUME NEW f \in F PROVE f < m <=> f < e \/ f = e
      BY <1>0, <1>7
    <3>2. ~(e < e)
      OBVIOUS
    <3> QED BY <1>10, <3>1, <3>2
  <2>2. Cardinality(Below(m)) = Cardinality(Below(e)) + 1
    <3> HIDE DEF Below
    <3> QED BY <1>2, <2>1, FS_AddElement
  <2>3. Cardinality(Below(e)) = i - 1
    <3> HIDE DEF Below
    <3> QED BY <1>1, <1>2, <1>5, <1>8, <2>2
  <2> QED BY <1>10, <2>3
<1> QED BY <1>9, <1>10

(* fat_parse_root_dir and fat_add_file: whatever is in the cache was read  *)
(* from a file's entry.                                                    *)
LEMMA ParseIs ==
    ASSUME NEW d, NEW k
    PROVE  /\ Len(ParseRootDir(d, k)) \in Nat /\ Len(ParseRootDir(d, k)) <= CacheMax
           /\ \A i \in 1 .. Len(ParseRootDir(d, k)) :
                \E e \in 1 .. DirEntries :
                  /\ d[e].kind = "file" /\ d[e].name = ParseRootDir(d, k)[i].name
                  /\ d[e].first = ParseRootDir(d, k)[i].first
                  /\ d[e].size = ParseRootDir(d, k)[i].size
<1> DEFINE files == {e \in Visible(d, k) : d[e].kind = "file"}
           nth(i) == CHOOSE e \in files : Cardinality({f \in files : f < e}) = i - 1
           n == Min({Cardinality(files), CacheMax})
<1>1. files \subseteq 1 .. DirEntries
  BY DEF Visible
<1>2. Cardinality(files) \in Nat
  <2>1. IsFiniteSet(1 .. DirEntries)
    BY FatConstants, FS_Interval
  <2>2. IsFiniteSet(files)
    <3> HIDE DEF files
    <3> QED BY <1>1, <2>1, FS_Subset
  <2> HIDE DEF files
  <2> QED BY <2>2, FS_CardinalityType
<1>3. n \in Nat /\ n <= CacheMax /\ n <= Cardinality(files)
  <2> DEFINE S == {Cardinality(files), CacheMax}
  <2>1. S \subseteq Nat /\ S # {} /\ CacheMax \in S /\ Cardinality(files) \in S
    <3> HIDE DEF files
    <3> QED BY <1>2, FatConstants
  <2>2. Min(S) \in S /\ \A y \in S : Min(S) <= y
    <3> HIDE DEF S
    <3> QED BY <2>1, SmallestIs
  <2>3. n = Min(S)
    OBVIOUS
  <2> HIDE DEF S, n
  <2> QED BY <2>1, <2>2, <2>3
<1>4. ParseRootDir(d, k) =
        [i \in 1 .. n |-> [name |-> d[nth(i)].name, first |-> d[nth(i)].first,
                          size |-> d[nth(i)].size]]
  BY DEF ParseRootDir
<1>5. ASSUME NEW i \in 1 .. n PROVE nth(i) \in files
  <2>1. i \in 1 .. Cardinality(files)
    <3> HIDE DEF files, n
    <3> QED BY <1>2, <1>3
  <2>2. \E e \in files : Cardinality({f \in files : f < e}) = i - 1
    <3> HIDE DEF files
    <3>1. PICK D \in Nat : D = DirEntries
      BY FatConstants
    <3> QED BY <1>1, <2>1, <3>1, NthExists
  <2> HIDE DEF files
  <2> QED BY <2>2
<1>6. ASSUME NEW i \in 1 .. n PROVE nth(i) \in 1 .. DirEntries /\ d[nth(i)].kind = "file"
  <2>1. nth(i) \in files
    BY <1>5
  <2> HIDE DEF nth
  <2> QED BY <1>1, <2>1
<1> HIDE DEF n, nth, files
<1>7. Len(ParseRootDir(d, k)) = n
  BY <1>3, <1>4
<1>8. ASSUME NEW i \in 1 .. n
      PROVE  ParseRootDir(d, k)[i] = [name |-> d[nth(i)].name, first |-> d[nth(i)].first,
                                      size |-> d[nth(i)].size]
  BY <1>4
<1>9. ASSUME NEW i \in 1 .. n
      PROVE  \E e \in 1 .. DirEntries :
               /\ d[e].kind = "file" /\ d[e].name = ParseRootDir(d, k)[i].name
               /\ d[e].first = ParseRootDir(d, k)[i].first
               /\ d[e].size = ParseRootDir(d, k)[i].size
  <2>1. PICK e \in 1 .. DirEntries : e = nth(i) /\ d[e].kind = "file"
    BY <1>6
  <2>2. ParseRootDir(d, k)[i] = [name |-> d[e].name, first |-> d[e].first, size |-> d[e].size]
    BY <1>8, <2>1
  <2> QED BY <2>1, <2>2
<1> QED BY <1>3, <1>7, <1>9

------------------------------------------------------------------------------
(* The types are kept whatever fails.                                      *)
LEMMA NeededIs ==
    ASSUME w \in Locals
    PROVE  /\ Needed \in Nat /\ w.size \in Nat /\ w.size <= Needed * ClusterSize
           /\ w.size = 0 => Needed = 0
           /\ w.size > 0 => Needed > 0
BY NeedsIs DEF Locals, Needed

LEMMA FirstIs ==
    ASSUME w \in Locals
    PROVE  w.first \in Nat
<1>1. PICK x \in {0} \cup Clusters : x = w.first
  BY DEF Locals
<1>2. x \in Nat
  BY FatConstants DEF Clusters
<1> QED BY <1>1, <1>2

LEMMA TypesBegin ==
    ASSUME Types, NEW n \in UserNames, NEW size \in Sizes, Begin(n, size)
    PROVE  Types'
<1>1. PICK k \in ReadsOf(DirSectors) :
        LET r == FindRootEntry(FormatName[n], k) IN
          /\ r[1] >= 0
          /\ w' = [NoLocals EXCEPT !.name = FormatName[n], !.size = size, !.entry = r[2],
                      !.cluster = IF r[1] = 1 THEN dir[r[2]].first ELSE 0]
          /\ misread' = (misread \/ k < DirSectors)
          /\ spoiled' = (spoiled \/ FormatName[n] \in stale)
  BY DEF Begin
<1>2. PICK r : /\ r = FindRootEntry(FormatName[n], k) /\ r[1] >= 0
               /\ w' = [NoLocals EXCEPT !.name = FormatName[n], !.size = size, !.entry = r[2],
                          !.cluster = IF r[1] = 1 THEN dir[r[2]].first ELSE 0]
  BY <1>1
<1>3. r[2] \in 1 .. DirEntries
  BY <1>2, FindIs
<1>4. dir[r[2]].first \in {0} \cup Clusters
  BY <1>3 DEF Types, TypeOK
<1>5. FormatName[n] \in DiskNames /\ size \in Nat
  BY FatAssumption
<1>6. w' = [name |-> FormatName[n], size |-> size, entry |-> r[2],
            cluster |-> IF r[1] = 1 THEN dir[r[2]].first ELSE 0,
            first |-> 0, i |-> 0, left |-> 0]
  BY <1>2 DEF NoLocals
<1>7. w' \in Locals /\ w'.first = 0 /\ w'.i = 0 /\ w'.left = 0
  BY <1>3, <1>4, <1>5, <1>6 DEF Locals
<1>8. pc' = "free" /\ writes' = writes + 1 /\ UNCHANGED <<fat, dir, data, cache, content, clean>>
  BY DEF Begin, disk
<1>9. {misread', spoiled', clean'} \subseteq BOOLEAN
  BY <1>1, <1>8 DEF Types
<1> QED BY <1>7, <1>8, <1>9 DEF Types, TypeOK, Files

LEMMA TypesFreeCluster ==
    ASSUME Types, FreeCluster
    PROVE  Types'
<1>1. PICK got \in ReadsOf(1), ok \in WriteOk :
        /\ w' = [w EXCEPT !.cluster = IF got = 1 THEN fat[w.cluster] ELSE 0]
        /\ fat' = IF ok THEN [fat EXCEPT ![w.cluster] = 0] ELSE fat
        /\ misread' = (misread \/ got = 0) /\ clean' = (clean /\ ok)
  BY DEF FreeCluster, NextInChain
<1>2. /\ pc = "free" /\ w \in Locals /\ w.cluster \in Clusters /\ fat \in Fats
      /\ w.first = 0 /\ w.i = 0 /\ w.left = 0
  BY ClusterFacts DEF FreeCluster, Types, TypeOK, Fats, Locals
<1>3. UNCHANGED <<dir, data, cache, pc, writes, content, spoiled>>
  BY DEF FreeCluster
<1>4. fat[w.cluster] \in {0, EOC} \cup Clusters
  BY <1>2 DEF Fats
<1>5. w' \in Locals /\ w'.first = 0 /\ w'.i = 0 /\ w'.left = 0
  BY <1>1, <1>2, <1>4 DEF Locals
<1>6. fat' \in Fats
  BY <1>1, <1>2 DEF Fats
<1>7. {misread', spoiled', clean'} \subseteq BOOLEAN
  <2>1. ok \in BOOLEAN
    BY DEF WriteOk
  <2> QED BY <1>1, <1>3, <2>1 DEF Types
<1> QED BY <1>2, <1>3, <1>5, <1>6, <1>7 DEF Types, TypeOK, Files, Fats

LEMMA TypesAllocate ==
    ASSUME Types, Allocate
    PROVE  /\ Types' /\ w'.first = w'.cluster /\ w'.first \in 2 .. TotalClusters - Needed
           /\ Needed' = Needed /\ Needed \in Nat \ {0} /\ pc' = "link" /\ w'.i = 0
<1>1. PICK missed \in Misreads :
        /\ FreeRuns(missed) # {}
        /\ w' = [w EXCEPT !.first = Min(FreeRuns(missed)), !.cluster = Min(FreeRuns(missed)),
                          !.left = w.size]
        /\ misread' = (misread \/ missed # {})
  BY DEF Allocate
<1>2. pc = "free" /\ w.size > 0 /\ w \in Locals /\ w.i = 0 /\ w.size \in Nat
  BY DEF Allocate, Types, Locals
<1>3. Needed \in Nat \ {0} /\ TotalClusters \in Nat
  BY <1>2, NeededIs, FatConstants
<1>4. PICK m : m = Min(FreeRuns(missed))
  OBVIOUS
<1>5. m \in 2 .. TotalClusters - Needed /\ m \in Clusters
  <2>1. FreeRuns(missed) \subseteq 2 .. TotalClusters - Needed
    BY DEF FreeRuns
  <2>2. FreeRuns(missed) \subseteq Nat
    BY <1>3, <2>1
  <2>3. m \in FreeRuns(missed)
    BY <1>1, <1>4, <2>2, SmallestIs
  <2> QED BY <1>3, <2>1, <2>3 DEF Clusters
<1>6. /\ w' \in Locals /\ w'.size = w.size /\ w'.left = w.size /\ w'.i = 0
      /\ w'.first = m /\ w'.cluster = m
  BY <1>1, <1>2, <1>4, <1>5 DEF Locals
<1>7. Needed' = Needed
  BY <1>6 DEF Needed
<1>8. pc' = "link" /\ UNCHANGED <<fat, dir, data, cache, writes, content, spoiled, clean>>
  BY DEF Allocate, disk
<1>9. w'.first + w'.i \in 2 .. TotalClusters - 1 /\ w'.i \in 0 .. Needed - 1
  BY <1>3, <1>5, <1>6
<1>10. {misread', spoiled', clean'} \subseteq BOOLEAN
  BY <1>1, <1>8 DEF Types
<1>11. Types'
  BY <1>2, <1>5, <1>6, <1>7, <1>8, <1>9, <1>10 DEF Types, TypeOK, Files
<1> QED BY <1>3, <1>5, <1>6, <1>7, <1>8, <1>11

LEMMA TypesLink ==
    ASSUME Types, Link
    PROVE  Types'
<1>1. /\ pc = "link" /\ w \in Locals /\ fat \in Fats
      /\ w.size > 0 /\ w.left = w.size /\ w.cluster = w.first
      /\ w.first \in 2 .. TotalClusters - Needed /\ w.i \in 0 .. Needed - 1
  BY DEF Link, Types, TypeOK, Fats
<1>2. Needed \in Nat /\ TotalClusters \in Nat /\ 0 \in 0 .. SectorsPerCluster - 1
  BY <1>1, NeededIs, FatConstants
<1>3. /\ fat' = [fat EXCEPT ![w.first + w.i] = LinkValue]
      /\ w' = [w EXCEPT !.i = IF w.i + 1 = Needed THEN 0 ELSE w.i + 1]
      /\ pc' = IF w.i + 1 = Needed THEN "data" ELSE "link"
      /\ UNCHANGED <<dir, data, cache, writes, content, misread, spoiled, clean>>
  BY DEF Link, history
<1>4. LinkValue \in {EOC} \cup Clusters
  BY <1>1, <1>2 DEF LinkValue, Clusters
<1>5. fat' \in Fats
  BY <1>1, <1>3, <1>4 DEF Fats
<1>6. /\ w' \in Locals /\ w'.size = w.size /\ w'.left = w.left /\ w'.cluster = w.cluster
      /\ w'.first = w.first /\ w'.i = IF w.i + 1 = Needed THEN 0 ELSE w.i + 1
  BY <1>1, <1>3 DEF Locals
<1>7. Needed' = Needed
  BY <1>6 DEF Needed
<1>8. pc' = "link" => /\ w'.i \in 0 .. Needed' - 1
                      /\ w'.first + w'.i \in 2 .. TotalClusters - 1
  BY <1>1, <1>2, <1>3, <1>6, <1>7
<1>9. pc' = "data" => w'.i \in 0 .. SectorsPerCluster - 1 /\ w'.left <= w'.size
  BY <1>1, <1>2, <1>3, <1>6 DEF Locals
<1> QED BY <1>1, <1>3, <1>5, <1>6, <1>7, <1>8, <1>9 DEF Types, TypeOK, Files, Fats

LEMMA TypesWriteSector ==
    ASSUME Types, WriteSector
    PROVE  Types'
<1>1. /\ pc = "data" /\ w.size > 0 /\ w \in Locals /\ fat \in Fats /\ w.left \in Nat /\ w.left > 0
      /\ w.size \in Nat /\ w.cluster \in Clusters /\ w.i \in 0 .. SectorsPerCluster - 1
      /\ w.left <= w.size
  BY ClusterFacts DEF WriteSector, Types, TypeOK, Fats, Locals
<1>2. /\ Chunk \in Sector /\ w.left - Chunk.len \in Nat
      /\ w.left - Chunk.len <= w.size
  BY <1>1, FatConstants DEF Chunk, Sector, Types
<1>3. /\ data' = [data EXCEPT ![w.cluster][w.i] = Chunk]
      /\ UNCHANGED <<fat, dir, cache, pc, writes, content, spoiled, clean>>
  BY DEF WriteSector
<1>4. data' \in [Clusters -> [0 .. SectorsPerCluster - 1 -> Sector]]
  BY <1>1, <1>2, <1>3 DEF Types, TypeOK
<1>5. fat[w.cluster] \in {0, EOC} \cup Clusters
  BY <1>1 DEF Fats
<1>6. /\ w' \in Locals /\ w'.size = w.size /\ w'.i \in 0 .. SectorsPerCluster - 1 /\ w'.left <= w'.size
      /\ misread' \in BOOLEAN
  <2> DEFINE left == w.left - Chunk.len
  <2>1. CASE left > 0 /\ w.i + 1 < SectorsPerCluster
    <3>1. w' = [w EXCEPT !.left = left, !.i = w.i + 1] /\ misread' = misread
      BY <2>1 DEF WriteSector
    <3> HIDE DEF left
    <3>2. left \in Nat /\ left <= w.size
      BY <1>2 DEF left
    <3>3. /\ w.i + 1 \in 0 .. SectorsPerCluster - 1 /\ w.i + 1 \in Nat
          /\ misread' \in BOOLEAN
      BY <1>1, <2>1, <3>1, FatConstants DEF Types
    <3>5. PICK i \in Nat : i = w.i + 1
      BY <3>3
    <3>4. w' \in Locals /\ w'.i = w.i + 1 /\ w'.left = left /\ w'.size = w.size
      BY <1>1, <3>1, <3>2, <3>5 DEF Locals
    <3> QED BY <3>2, <3>3, <3>4
  <2>2. CASE ~(left > 0 /\ w.i + 1 < SectorsPerCluster)
    <3>1. PICK got \in ReadsOf(1) :
            /\ w' = [w EXCEPT !.left = left, !.i = 0,
                       !.cluster = IF got = 1 THEN fat[w.cluster] ELSE 0]
            /\ misread' = (misread \/ got = 0)
      BY <2>2 DEF WriteSector
    <3>2. left \in Nat /\ left <= w.size
      BY <1>2
    <3> HIDE DEF left
    <3>3. 0 \in 0 .. SectorsPerCluster - 1 /\ misread' \in BOOLEAN
      BY <3>1, FatConstants DEF Types
    <3>4. w' \in Locals /\ w'.i = 0 /\ w'.left = left /\ w'.size = w.size
      BY <1>1, <1>5, <3>1, <3>2 DEF Locals
    <3> QED BY <3>2, <3>3, <3>4
  <2> QED BY <2>1, <2>2
<1> QED BY <1>1, <1>3, <1>4, <1>6 DEF Types, TypeOK, Files

LEMMA TypesFinish ==
    ASSUME Types, Finish
    PROVE  Types'
<1>1. PICK k \in ReadsOf(DirSectors) :
        cache' = ParseRootDir(dir', k) /\ misread' = (misread \/ k < DirSectors)
  BY DEF Finish
<1>2. pc = "dir" /\ w \in Locals /\ pc' = "idle" /\ UNCHANGED <<fat, data, writes, spoiled, clean>>
  BY DEF Finish, Types
<1>3. /\ dir' = [dir EXCEPT ![w.entry] = NewEntry] /\ w.entry \in 1 .. DirEntries
      /\ DOMAIN dir = 1 .. DirEntries
      /\ content' = [content EXCEPT ![w.name] = [ver |-> writes, size |-> w.size]]
  BY <1>2 DEF Finish, Types, TypeOK, Locals
<1>4. Len(cache') <= CacheMax
  BY <1>1, ParseIs
<1>5. /\ DOMAIN dir' = 1 .. DirEntries
      /\ \A e \in 1 .. DirEntries : dir'[e] = IF e = w.entry THEN NewEntry ELSE dir[e]
  BY <1>3
<1>6. /\ \A e \in 1 .. DirEntries : dir'[e].first \in {0} \cup Clusters
      /\ \A e \in Files' : dir'[e].name \in DiskNames
  <2>1. NewEntry.first \in {0} \cup Clusters /\ NewEntry.name \in DiskNames
    BY <1>2 DEF NewEntry, Locals
  <2>2. ASSUME NEW e \in Files' PROVE dir'[e].name \in DiskNames
    <3>1. e \in 1 .. DirEntries /\ dir'[e].kind = "file"
      BY DEF Files
    <3>2. e # w.entry => e \in Files
      BY <1>5, <3>1 DEF Files
    <3> QED BY <1>5, <2>1, <3>1, <3>2 DEF Types
  <2> QED BY <1>5, <2>1, <2>2 DEF Types, TypeOK
<1>7. content' \in [DiskNames -> [ver : Nat, size : Nat]]
  BY <1>2, <1>3 DEF Types, Locals
<1>8. {misread', spoiled', clean'} \subseteq BOOLEAN
  BY <1>1, <1>2 DEF Types
<1> QED BY <1>2, <1>4, <1>5, <1>6, <1>7, <1>8 DEF Types, TypeOK

LEMMA TypesFail ==
    ASSUME Types, Fail, UNCHANGED <<fat, misread>>
    PROVE  Types'
BY DEF Fail, Types, TypeOK, Files

LEMMA TypesCrash ==
    ASSUME Types, Crash
    PROVE  Types'
<1>1. /\ pc' = "idle" /\ UNCHANGED <<fat, dir, data, writes, content, spoiled, misread>>
      /\ clean' = FALSE
  BY DEF Crash, disk
<1>2. Len(cache') <= CacheMax
  <2>1. cache' = ParseRootDir(dir, DirSectors) \/ cache' = <<>>
    BY DEF Crash
  <2> QED BY <2>1, ParseIs, FatConstants
<1> QED BY <1>1, <1>2 DEF Types, TypeOK, Files

LEMMA TypesKept == Types /\ [Next]_vars => Types'
<1> SUFFICES ASSUME Types, [Next]_vars PROVE Types'
  OBVIOUS
<1>1. CASE AllocateNone
  BY <1>1 DEF AllocateNone, disk, history, Types, TypeOK, Files
<1>2. CASE DataDone
  BY <1>2 DEF DataDone, disk, history, Types, TypeOK, Files
<1>3. CASE WriteFails \/ AllocateFails
  BY <1>3, TypesFail DEF WriteFails, AllocateFails
<1>4. CASE UNCHANGED vars
  BY <1>4 DEF vars, disk, history, Types, TypeOK, Files, Needed, Needs
<1>5. CASE ReadOrList
  BY <1>4, <1>5 DEF ReadOrList
<1> QED BY <1>1, <1>2, <1>3, <1>4, <1>5, TypesBegin, TypesFreeCluster, TypesAllocate,
           TypesLink, TypesWriteSector, TypesFinish, TypesCrash DEF Next

LEMMA HistoryKept == Types /\ History /\ [Next]_vars => History'
<1> SUFFICES ASSUME Types, History, [Next]_vars PROVE History'
  OBVIOUS
<1>1. ASSUME NEW n \in UserNames, NEW size \in Sizes, Begin(n, size) PROVE History'
  <2>1. PICK k, r :
          /\ k \in ReadsOf(DirSectors)
          /\ w' = [NoLocals EXCEPT !.name = FormatName[n], !.size = size, !.entry = r[2],
                      !.cluster = IF r[1] = 1 THEN dir[r[2]].first ELSE 0]
          /\ spoiled' = (spoiled \/ FormatName[n] \in stale)
          /\ stale' = (stale \cup failed) \ {FormatName[n]}
    BY <1>1 DEF Begin
  <2>2. w'.name = FormatName[n]
    BY <2>1 DEF NoLocals
  <2>3. UNCHANGED <<failed, clean>>
    BY <1>1 DEF Begin
  <2> QED BY <2>1, <2>2, <2>3 DEF History
<1>2. CASE FreeCluster
  <2>1. PICK v : w' = [w EXCEPT !.cluster = v]
    BY <1>2 DEF FreeCluster
  <2>2. w'.name = w.name /\ pc = "free" /\ (clean' => clean)
    BY <1>2, <2>1 DEF FreeCluster, Types, Locals
  <2> QED BY <1>2, <2>2 DEF FreeCluster, History
<1>3. CASE Allocate
  <2>1. PICK v : w' = [w EXCEPT !.first = v, !.cluster = v, !.left = w.size]
    BY <1>3 DEF Allocate
  <2>2. w'.name = w.name /\ pc = "free"
    BY <1>3, <2>1 DEF Allocate, Types, Locals
  <2> QED BY <1>3, <2>2 DEF Allocate, History
<1>4. CASE Link
  <2>1. PICK v : w' = [w EXCEPT !.i = v]
    BY <1>4 DEF Link
  <2>2. w'.name = w.name /\ pc = "link"
    BY <1>4, <2>1 DEF Link, Types, Locals
  <2> QED BY <1>4, <2>2 DEF Link, History, history
<1>5. CASE WriteSector
  <2>1. w'.name = w.name /\ pc = "data"
    BY <1>5 DEF WriteSector, Types, Locals
  <2> QED BY <1>5, <2>1 DEF WriteSector, History
<1>6. CASE Finish \/ AllocateFails \/ WriteFails \/ Crash
  <2>1. pc' = "idle" /\ (clean' => clean /\ Finish)
    <3>1. Finish => pc' = "idle" /\ clean' = clean
      BY DEF Finish
    <3>2. AllocateFails \/ WriteFails => pc' = "idle" /\ clean' = FALSE
      BY DEF AllocateFails, WriteFails, Fail
    <3>3. Crash => pc' = "idle" /\ clean' = FALSE
      BY DEF Crash
    <3> QED BY <1>6, <3>1, <3>2, <3>3
  <2>2. Finish => UNCHANGED <<stale, spoiled>> /\ failed' = failed \ {w.name}
    BY DEF Finish
  <2> QED BY <2>1, <2>2 DEF History
<1>7. CASE AllocateNone \/ DataDone \/ ReadOrList \/ UNCHANGED vars
  BY <1>7 DEF AllocateNone, DataDone, ReadOrList, vars, history, History
<1> QED BY <1>1, <1>2, <1>3, <1>4, <1>5, <1>6, <1>7 DEF Next

------------------------------------------------------------------------------
(* A file stays as it is while its clusters do.                            *)
LEMMA HoldsKept ==
    ASSUME NEW f \in Fats, NEW f2 \in Fats, NEW d, NEW d2, NEW entry, NEW written,
           written.size \in Nat, Holds(f, d, entry, written),
           \A c \in ClustersFrom(f, entry.first) : f2[c] = f[c] /\ d2[c] = d[c]
    PROVE  /\ Holds(f2, d2, entry, written)
           /\ ClustersFrom(f2, entry.first) = ClustersFrom(f, entry.first)
<1>1. PICK s : s = Chain(f, entry.first)
  OBVIOUS
<1>2. /\ Chained(f, entry.first, s) /\ Len(s) = Needs(written.size)
      /\ entry.size = written.size
      /\ \A k \in 0 .. written.size - 1 : ByteAt(d, s, k) = <<written.ver, k>>
  BY <1>1 DEF Holds
<1>3. \A i \in 1 .. Len(s) : f2[s[i]] = f[s[i]] /\ d2[s[i]] = d[s[i]]
  BY <1>2, ClustersFromIs
<1>4. Chained(f2, entry.first, s)
  BY <1>2, <1>3, ChainKept
<1>5. Chain(f2, entry.first) = s /\ ClustersFrom(f2, entry.first) = ClustersFrom(f, entry.first)
  <2>1. Chain(f2, entry.first) = s
    BY <1>4, ChainIs
  <2>2. ClustersFrom(f2, entry.first) = {s[i] : i \in 1 .. Len(s)}
    BY <1>4, ClustersFromIs
  <2>3. ClustersFrom(f, entry.first) = {s[i] : i \in 1 .. Len(s)}
    BY <1>2, ClustersFromIs
  <2> QED BY <2>1, <2>2, <2>3
<1>6. ASSUME NEW k \in 0 .. written.size - 1 PROVE ByteAt(d2, s, k) = ByteAt(d, s, k)
  <2>1. k \div ClusterSize \in 0 .. Needs(written.size) - 1
    BY PlaceOf
  <2>2. k \div ClusterSize + 1 \in 1 .. Len(s)
    <3>1. PICK n \in Nat : n = Needs(written.size)
      BY NeedsIs
    <3>2. PICK q \in 0 .. n - 1 : q = k \div ClusterSize
      BY <2>1, <3>1
    <3>3. q + 1 \in 1 .. n
      OBVIOUS
    <3> QED BY <1>2, <3>1, <3>2, <3>3
  <2> QED BY <1>3, <2>2 DEF ByteAt
<1> QED BY <1>2, <1>4, <1>5, <1>6 DEF Holds

LEMMA IntactFacts ==
    ASSUME Types, FilesInv, NEW e \in Intact
    PROVE  /\ e \in Files /\ e \in 1 .. DirEntries /\ fat \in Fats
           /\ dir[e].name \in DiskNames /\ content[dir[e].name].size \in Nat
           /\ Holds(fat, data, dir[e], content[dir[e].name])
           /\ Chained(fat, dir[e].first, Chain(fat, dir[e].first))
           /\ dir[e].first \in {0} \cup Clusters
<1>1. e \in Files /\ e \in 1 .. DirEntries
  BY DEF Intact, Files
<1>2. dir[e].name \in DiskNames /\ fat \in Fats /\ dir[e].first \in {0} \cup Clusters
  BY <1>1 DEF Types, TypeOK, Fats
<1>3. content[dir[e].name].size \in Nat
  BY <1>2 DEF Types
<1>4. Holds(fat, data, dir[e], content[dir[e].name])
  BY DEF FilesInv
<1> QED BY <1>1, <1>2, <1>3, <1>4 DEF Holds

LEMMA TakenFacts ==
    ASSUME Types, FilesInv, NEW c \in Taken
    PROVE  c \in Clusters /\ fat[c] # 0
<1>1. PICK e \in Intact : c \in ClustersFrom(fat, dir[e].first)
  BY DEF Taken, ClustersOf
<1> QED BY <1>1, IntactFacts, ChainFacts

LEMMA FilesFrame ==
    ASSUME Types, Types', FilesInv, UNCHANGED dir,
           \A e \in Intact' : e \in Intact /\ content'[dir[e].name] = content[dir[e].name],
           \A c \in Taken : fat'[c] = fat[c] /\ data'[c] = data[c]
    PROVE  /\ FilesInv' /\ Taken' \subseteq Taken
           /\ \A e \in Intact' : ClustersOf(e)' = ClustersOf(e)
           /\ Intact \subseteq Intact' => Taken' = Taken
<1>1. ASSUME NEW e \in Intact'
      PROVE  Holds(fat', data', dir'[e], content'[dir'[e].name]) /\ ClustersOf(e)' = ClustersOf(e)
  <2>1. /\ e \in Intact /\ fat \in Fats /\ Holds(fat, data, dir[e], content[dir[e].name])
        /\ content[dir[e].name].size \in Nat
    BY IntactFacts
  <2>2. fat' \in Fats
    BY DEF Types, TypeOK, Fats
  <2>3. \A c \in ClustersFrom(fat, dir[e].first) : fat'[c] = fat[c] /\ data'[c] = data[c]
    BY <2>1 DEF Taken, ClustersOf
  <2>4. /\ Holds(fat', data', dir[e], content[dir[e].name])
        /\ ClustersFrom(fat', dir[e].first) = ClustersFrom(fat, dir[e].first)
    <3>0. PICK f2 \in Fats : f2 = fat'
      BY <2>2
    <3>1. PICK d2, x, y : d2 = data' /\ x = dir[e] /\ y = content[dir[e].name]
      OBVIOUS
    <3>2. Holds(f2, d2, x, y) /\ ClustersFrom(f2, x.first) = ClustersFrom(fat, x.first)
      <4>1. /\ fat \in Fats /\ y.size \in Nat /\ Holds(fat, data, x, y)
            /\ \A c \in ClustersFrom(fat, x.first) : f2[c] = fat[c] /\ d2[c] = data[c]
        BY <2>1, <2>3, <3>0, <3>1
      <4> QED BY <4>1, HoldsKept
    <3> QED BY <3>0, <3>1, <3>2
  <2> QED BY <2>1, <2>4 DEF ClustersOf
<1>2. FilesInv'
  <2>1. \A e \in Intact' : Holds(fat', data', dir'[e], content'[dir'[e].name])
    BY <1>1
  <2>2. ASSUME NEW e \in Intact', NEW f \in Intact', e # f
        PROVE  ClustersOf(e)' \cap ClustersOf(f)' = {}
    BY <1>1, <2>2 DEF FilesInv
  <2> QED BY <2>1, <2>2 DEF FilesInv
<1>3. Taken' \subseteq Taken
  <2> SUFFICES ASSUME NEW c \in Taken' PROVE c \in Taken
    OBVIOUS
  <2>1. PICK e \in Intact' : c \in ClustersOf(e)'
    BY DEF Taken
  <2> QED BY <1>1, <2>1 DEF Taken
<1>4. ASSUME Intact \subseteq Intact' PROVE Taken \subseteq Taken'
  <2> SUFFICES ASSUME NEW c \in Taken PROVE c \in Taken'
    OBVIOUS
  <2>1. PICK e \in Intact : c \in ClustersOf(e)
    BY DEF Taken
  <2>2. c \in ClustersOf(e)'
    BY <1>1, <1>4, <2>1
  <2> QED BY <1>4, <2>1, <2>2 DEF Taken
<1> QED BY <1>1, <1>2, <1>3, <1>4

------------------------------------------------------------------------------
(* Steps after which the files are still intact.  The call begins: the     *)
(* clusters that may be cleared are those of the name's own file.          *)
LEMMA NamesDiffer ==
    ASSUME Orderly(dir), NEW e \in 1 .. DirEntries, NEW f \in 1 .. DirEntries,
           Named(e), Named(f), dir[e].name = dir[f].name
    PROVE  e = f
BY DEF Orderly, Named

LEMMA BeginKeeps ==
    ASSUME Types, Types', History, GoodInv, Good', clean /\ ~misread => NoLeak,
           NEW n \in UserNames, NEW size \in Sizes, Begin(n, size)
    PROVE  GoodInv' /\ (clean' /\ ~misread' => NoLeak')
<1>1. PICK k, r :
        /\ k \in ReadsOf(DirSectors) /\ r = FindRootEntry(FormatName[n], k) /\ r[1] >= 0
        /\ w' = [NoLocals EXCEPT !.name = FormatName[n], !.size = size, !.entry = r[2],
                   !.cluster = IF r[1] = 1 THEN dir[r[2]].first ELSE 0]
        /\ misread' = (misread \/ k < DirSectors)
        /\ spoiled' = (spoiled \/ FormatName[n] \in stale)
        /\ stale' = (stale \cup failed) \ {FormatName[n]}
  BY DEF Begin
<1>2. PICK name : name = FormatName[n]
  OBVIOUS
<1>3. /\ pc = "idle" /\ pc' = "free" /\ writes' = writes + 1
      /\ UNCHANGED <<fat, dir, data, cache, content, failed, clean>>
  BY DEF Begin, disk
<1>4. k = DirSectors /\ name \notin stale
  <2>1. DirSectors \in Int
    BY FatAssumption DEF DirSectors, SectorOf
  <2>2. k \in Int /\ k <= DirSectors
    BY <1>1, <2>1 DEF ReadsOf
  <2>3. ~(k < DirSectors) /\ name \notin stale
    BY <1>1, <1>2, Zenon DEF Good
  <2> QED BY <2>1, <2>2, <2>3
<1>5. /\ w'.name = name /\ w'.entry = r[2] /\ w'.first = 0 /\ w'.i = 0 /\ w'.left = 0
      /\ w'.cluster = IF r[1] = 1 THEN dir[r[2]].first ELSE 0
  BY <1>1, <1>2 DEF NoLocals
<1>6. Writing = {} /\ Writing' = {name}
  BY <1>3, <1>5 DEF Writing
<1>7. Orderly(dir) /\ Slot' /\ r[2] \in 1 .. DirEntries /\ r[1] \in {0, 1}
  <2>1. Orderly(dir)
    BY DEF GoodInv, DirInv
  <2>2. /\ r[1] \in {0, 1} /\ r[2] \in 1 .. DirEntries
        /\ \A f \in 1 .. r[2] - 1 : SectorOf(f) = SectorOf(r[2]) => dir[f].kind # "end"
        /\ r[1] = 1 => Named(r[2]) /\ dir[r[2]].name = name
        /\ r[1] = 0 => /\ dir[r[2]].kind \in {"end", "deleted"}
                       /\ \A e \in 1 .. DirEntries : Named(e) => dir[e].name # name
    BY <1>1, <1>2, <1>4, <2>1, FindIs
  <2> QED BY <1>3, <1>5, <2>1, <2>2 DEF Slot, Named
<1>8. DirInv'
  BY <1>3, <1>7 DEF DirInv
<1>9. /\ FilesInv' /\ Taken' \subseteq Taken
      /\ \A e \in Intact' : ClustersOf(e)' = ClustersOf(e) /\ e \in Intact
  <2>1. \A e \in Intact' : e \in Intact /\ content'[dir[e].name] = content[dir[e].name]
    BY <1>3, <1>6 DEF Intact, Files
  <2>2. FilesInv
    BY DEF GoodInv
  <2> QED BY <1>3, <2>1, <2>2, FilesFrame
<1>10. CacheInv'
  BY <1>3, <1>6 DEF GoodInv, CacheInv, Files
<1>11. Progress'
  BY <1>3 DEF Progress
<1>12. Claimants' = {name} /\ fat \in Fats
  BY <1>3, <1>5 DEF Claimants, Types, TypeOK, Fats
<1>13. CASE \A e \in Files : dir[e].name # name
  <2>1. w'.cluster = 0
    <3>1. CASE r[1] = 1
      <4>1. r[2] \notin Files /\ Named(r[2])
        BY <1>1, <1>2, <1>13, <3>1, FindIs
      <4>2. dir[r[2]].kind = "label"
        BY <1>7, <4>1 DEF Files, Named
      <4> QED BY <1>5, <1>7, <3>1, <4>2 DEF Orderly
    <3>2. CASE r[1] = 0
      BY <1>5, <3>2
    <3> QED BY <1>7, <3>1, <3>2
  <2>2. Claims({})'
    BY <1>3, <1>12, <1>13, <2>1 DEF Claims, Files
  <2>3. ASSUME clean', ~misread' PROVE NoLeak'
    <3>1. NoLeak /\ Held = {}
      BY <1>1, <1>3, <2>3 DEF Held
    <3>2. 0 \notin Clusters
      BY ClusterFacts
    <3>3. Chained(fat', w'.cluster, Chain(fat', w'.cluster)) /\ Held' = {}
      BY <1>3, <1>12, <2>1, <3>2, NoChain DEF Held
    <3>4. Intact \subseteq Intact'
      BY <1>3, <1>6, <1>13 DEF Intact, Files
    <3>5. Taken' = Taken
      BY <1>3, <1>9, <3>4 DEF Taken, ClustersOf
    <3> QED BY <1>3, <3>1, <3>3, <3>5 DEF NoLeak
  <2> QED BY <1>8, <1>9, <1>10, <1>11, <2>2, <2>3 DEF GoodInv
<1>14. ASSUME NEW e \in Files, dir[e].name = name
       PROVE  GoodInv' /\ (clean' /\ ~misread' => NoLeak')
  <2>1. e \in 1 .. DirEntries /\ Named(e)
    BY DEF Files, Named
  <2>2. r[1] = 1 /\ r[2] = e
    <3>1. r[1] # 0
      BY <1>1, <1>2, <1>4, <1>7, <1>14, <2>1, FindIs
    <3>2. Named(r[2]) /\ dir[r[2]].name = name
      BY <1>1, <1>2, <1>7, <3>1, FindIs
    <3> QED BY <1>7, <1>14, <2>1, <3>1, <3>2, NamesDiffer
  <2>3. \A f \in Files : dir[f].name = name => f = e
    BY <1>7, <1>14, <2>1, NamesDiffer DEF Files, Named
  <2>4. w'.cluster = dir[e].first /\ dir[e].first \in {0} \cup Clusters
    BY <1>5, <2>1, <2>2 DEF Types, TypeOK
  <2>5. CASE name \in failed
    <3>1. PICK S \in SUBSET Clusters : Claims(S)
      BY DEF GoodInv
    <3>2. dir[e].first \in S \cup {0}
      BY <1>3, <1>4, <1>14, <2>5, <3>1 DEF Claims, Claimants
    <3>3. Claims(S)'
      BY <1>3, <1>9, <1>12, <2>3, <2>4, <3>1, <3>2 DEF Claims, Files
    <3>4. ~clean'
      BY <1>3, <2>5 DEF History
    <3> QED BY <1>8, <1>9, <1>10, <1>11, <3>3, <3>4 DEF GoodInv
  <2>6. CASE name \notin failed
    <3>1. e \in Intact /\ e \notin Intact'
      BY <1>3, <1>6, <1>14, <2>6 DEF Intact, Files
    <3>2. FilesInv
      BY DEF GoodInv
    <3>3. Chained(fat, dir[e].first, Chain(fat, dir[e].first))
      BY <3>1, <3>2, IntactFacts
    <3>4. /\ dir[e].first \in Clusters => dir[e].first \in ClustersOf(e)
          /\ \A c \in ClustersOf(e) : /\ c \in Clusters
                                      /\ fat[c] \in Clusters => fat[c] \in ClustersOf(e)
      BY <1>12, <3>3, ChainFacts DEF ClustersOf
    <3>5. ClustersOf(e) \cap Taken' = {}
      <4> SUFFICES ASSUME NEW c \in ClustersOf(e), c \in Taken' PROVE FALSE
        OBVIOUS
      <4>1. PICK f \in Intact' : c \in ClustersOf(f)'
        BY DEF Taken
      <4>2. f \in Intact /\ f # e /\ c \in ClustersOf(f)
        BY <1>9, <3>1, <4>1
      <4> QED BY <3>1, <3>2, <4>2 DEF FilesInv
    <3>6. Claims(ClustersOf(e))'
      <4>1. PICK S : S = ClustersOf(e)
        OBVIOUS
      <4>2. Claims(S)'
        BY <1>3, <1>12, <2>3, <2>4, <3>4, <3>5, <4>1 DEF Claims, Files
      <4>3. ClustersOf(e)' = ClustersOf(e)
        BY <1>3 DEF ClustersOf
      <4> QED BY <4>1, <4>2, <4>3
    <3>7. \E S \in SUBSET Clusters : Claims(S)'
      <4>1. ClustersOf(e)' = ClustersOf(e)
        BY <1>3 DEF ClustersOf
      <4>2. PICK S \in SUBSET Clusters : S = ClustersOf(e)
        BY <3>4
      <4> QED BY <3>6, <4>1, <4>2
    <3>8. ASSUME clean', ~misread' PROVE NoLeak'
      <4>1. NoLeak /\ Held = {} /\ failed = {}
        BY <1>1, <1>3, <3>8 DEF Held, History
      <4>2. Held' = ClustersOf(e) /\ Chained(fat', w'.cluster, Chain(fat', w'.cluster))
        BY <1>3, <2>4, <3>3 DEF Held, ClustersOf
      <4>3. Taken \subseteq Taken' \cup ClustersOf(e)
        <5> SUFFICES ASSUME NEW c \in Taken, c \notin ClustersOf(e) PROVE c \in Taken'
          OBVIOUS
        <5>1. PICK f \in Intact : c \in ClustersOf(f)
          BY DEF Taken
        <5>2. f \in Intact'
          BY <1>3, <1>6, <2>3, <4>1, <5>1 DEF Intact, Files
        <5> QED BY <1>9, <5>1, <5>2 DEF Taken
      <4>4. ClustersOf(e) \subseteq Taken
        BY <3>1 DEF Taken
      <4> QED BY <1>3, <1>9, <3>5, <4>1, <4>2, <4>3, <4>4 DEF NoLeak
    <3> QED BY <1>8, <1>9, <1>10, <1>11, <3>7, <3>8 DEF GoodInv
  <2> QED BY <2>5, <2>6
<1> QED BY <1>13, <1>14

LEMMA SameFiles ==
    ASSUME Types, Types', FilesInv, UNCHANGED <<dir, content>>, Intact' = Intact,
           \A c \in Taken : fat'[c] = fat[c] /\ data'[c] = data[c]
    PROVE  FilesInv' /\ Taken' = Taken
BY FilesFrame

(* fat_free_chain: only clusters of the claim are cleared.                 *)
LEMMA ClearFirst ==
    ASSUME NEW f \in Fats, NEW c \in Clusters, NEW s, Chained(f, c, s)
    PROVE  LET f2 == [f EXCEPT ![c] = 0]
           IN  /\ Chained(f2, f[c], Chain(f2, f[c]))
               /\ c \in ClustersFrom(f, c)
               /\ ClustersFrom(f2, f[c]) = ClustersFrom(f, c) \ {c}
<1>1. PICK f2 \in Fats : f2 = [f EXCEPT ![c] = 0]
  BY DEF Fats
<1>2. PICK t : t = Tail(s)
  OBVIOUS
<1>3. s # <<>> /\ s[1] = c /\ Chained(f2, f[c], t)
  BY <1>1, <1>2, ChainTail
<1>4. /\ s \in Seq(Clusters) /\ Len(s) \in Nat /\ Len(s) > 0
      /\ \A i, j \in 1 .. Len(s) : s[i] = s[j] => i = j
  BY <1>3 DEF Chained
<1>5. Len(t) = Len(s) - 1 /\ \A i \in 1 .. Len(s) - 1 : t[i] = s[i + 1]
  BY <1>2, <1>3, <1>4
<1>6. Chain(f2, f[c]) = t /\ ClustersFrom(f2, f[c]) = {t[i] : i \in 1 .. Len(t)}
  BY <1>3, ChainIs, ClustersFromIs
<1>7. ClustersFrom(f, c) = {s[i] : i \in 1 .. Len(s)}
  BY ClustersFromIs
<1>8. c \in ClustersFrom(f, c)
  <2>1. 1 \in 1 .. Len(s)
    BY <1>4
  <2> QED BY <1>3, <1>7, <2>1
<1>9. ASSUME NEW x \in ClustersFrom(f2, f[c]) PROVE x \in ClustersFrom(f, c) /\ x # c
  <2>1. PICK i \in 1 .. Len(s) - 1 : x = s[i + 1]
    BY <1>5, <1>6
  <2>2. i + 1 \in 1 .. Len(s) /\ 1 \in 1 .. Len(s) /\ i + 1 # 1
    BY <1>4
  <2> QED BY <1>3, <1>4, <1>7, <2>1, <2>2
<1>10. ASSUME NEW x \in ClustersFrom(f, c), x # c PROVE x \in ClustersFrom(f2, f[c])
  <2>1. PICK i \in 1 .. Len(s) : x = s[i]
    BY <1>7
  <2>2. i # 1
    BY <1>3, <1>10, <2>1
  <2>3. PICK j \in 1 .. Len(s) - 1 : i = j + 1
    BY <1>4, <2>2
  <2> QED BY <1>5, <1>6, <2>1, <2>3
<1> QED BY <1>1, <1>3, <1>6, <1>8, <1>9, <1>10

LEMMA FreeClusterKeeps ==
    ASSUME Types, Types', History, GoodInv, Good', clean /\ ~misread => NoLeak, FreeCluster
    PROVE  GoodInv' /\ (clean' /\ ~misread' => NoLeak')
<1>1. PICK got \in ReadsOf(1), ok \in WriteOk :
        /\ w' = [w EXCEPT !.cluster = IF got = 1 THEN fat[w.cluster] ELSE 0]
        /\ fat' = IF ok THEN [fat EXCEPT ![w.cluster] = 0] ELSE fat
        /\ misread' = (misread \/ got = 0) /\ clean' = (clean /\ ok)
  BY DEF FreeCluster, NextInChain
<1>2. /\ pc = "free" /\ pc' = "free" /\ w \in Locals /\ w.cluster \in Clusters /\ fat \in Fats
      /\ UNCHANGED <<dir, data, cache, content, failed, stale>>
  BY ClusterFacts DEF FreeCluster, Types, TypeOK, Fats, Locals
<1>3. got = 1
  <2>1. got # 0
    BY <1>1, Zenon DEF Good
  <2> QED BY <2>1 DEF ReadsOf
<1>4. /\ w'.name = w.name /\ w'.entry = w.entry /\ w'.size = w.size
      /\ w'.first = w.first /\ w'.cluster = fat[w.cluster]
  BY <1>1, <1>2, <1>3 DEF Locals
<1>5. PICK S \in SUBSET Clusters : Claims(S)
  BY DEF GoodInv
<1>6. w.cluster \in S
  BY <1>2, <1>5, ClusterFacts DEF Claims
<1>7. /\ \A c \in Clusters : fat'[c] = fat[c] \/ (c = w.cluster /\ fat'[c] = 0)
      /\ \A c \in Taken : fat'[c] = fat[c] /\ data'[c] = data[c]
  <2>1. \A c \in Clusters : fat'[c] = fat[c] \/ (c = w.cluster /\ fat'[c] = 0)
    BY <1>1, <1>2 DEF Fats
  <2>2. w.cluster \notin Taken
    BY <1>5, <1>6 DEF Claims
  <2>3. FilesInv
    BY DEF GoodInv
  <2> QED BY <1>2, <2>1, <2>2, <2>3, TakenFacts
<1>8. Writing' = Writing /\ Files' = Files /\ Intact' = Intact
  BY <1>2, <1>4 DEF Writing, Files, Intact
<1>9. FilesInv' /\ Taken' = Taken
  BY <1>2, <1>7, <1>8, SameFiles DEF GoodInv
<1>10. DirInv' /\ CacheInv' /\ Progress'
  BY <1>2, <1>4, <1>8 DEF GoodInv, DirInv, Slot, Named, CacheInv, Progress
<1>11. Claims(S)'
  <2>1. ASSUME NEW c \in S, fat'[c] \in Clusters PROVE fat'[c] \in S
    BY <1>5, <1>7, <2>1, ClusterFacts DEF Claims
  <2>2. Claimants' = Claimants
    BY <1>2, <1>4 DEF Claimants
  <2>3. fat[w.cluster] \in S \cup {0, EOC}
    BY <1>2, <1>5, <1>6 DEF Claims, Fats
  <2> QED BY <1>2, <1>4, <1>5, <1>8, <1>9, <2>1, <2>2, <2>3 DEF Claims
<1>12. ASSUME clean', ~misread' PROVE NoLeak'
  <2>1. NoLeak /\ fat' = [fat EXCEPT ![w.cluster] = 0]
    BY <1>1, <1>12
  <2>2. /\ Chained(fat, w.cluster, Chain(fat, w.cluster)) /\ Held \cap Taken = {}
        /\ Held = ClustersFrom(fat, w.cluster)
        /\ {c \in Clusters : fat[c] # 0} = Taken \cup Held
    BY <1>2, <2>1 DEF NoLeak, Held
  <2>3. /\ Chained(fat', fat[w.cluster], Chain(fat', fat[w.cluster]))
        /\ w.cluster \in Held
        /\ ClustersFrom(fat', fat[w.cluster]) = Held \ {w.cluster}
    BY <1>2, <2>1, <2>2, ClearFirst
  <2>4. Held' = Held \ {w.cluster}
    BY <1>2, <1>4, <2>3 DEF Held
  <2>5. {c \in Clusters : fat'[c] # 0} = {c \in Clusters : fat[c] # 0} \ {w.cluster}
    BY <1>2, <2>1 DEF Fats
  <2>6. {c \in Clusters : fat'[c] # 0} = Taken' \cup Held'
    BY <1>9, <2>2, <2>3, <2>4, <2>5
  <2>7. Held' \cap Taken' = {}
    BY <1>9, <2>2, <2>4
  <2> QED BY <1>4, <2>3, <2>6, <2>7 DEF NoLeak
<1> QED BY <1>9, <1>10, <1>11, <1>12 DEF GoodInv

(* The call takes clusters that belong to no file.                         *)
LEMMA AllocateKeeps ==
    ASSUME Types, Types', History, GoodInv, Good', clean /\ ~misread => NoLeak, Allocate
    PROVE  GoodInv' /\ (clean' /\ ~misread' => NoLeak')
<1>1. PICK missed \in Misreads :
        /\ FreeRuns(missed) # {}
        /\ w' = [w EXCEPT !.first = Min(FreeRuns(missed)), !.cluster = Min(FreeRuns(missed)),
                          !.left = w.size]
        /\ misread' = (misread \/ missed # {})
  BY DEF Allocate
<1>2. /\ pc = "free" /\ pc' = "link" /\ ~InChain(w.cluster) /\ w \in Locals /\ fat \in Fats
      /\ w.size \in Nat
      /\ UNCHANGED <<fat, dir, data, cache, content, failed, stale, clean>>
  BY DEF Allocate, disk, Types, TypeOK, Fats, Locals
<1>3. missed = {}
  BY <1>1, Zenon DEF Good
<1>4. /\ w'.name = w.name /\ w'.entry = w.entry /\ w'.size = w.size
      /\ w'.first = Min(FreeRuns({})) /\ w'.i = w.i /\ w.i = 0
  BY <1>1, <1>2, <1>3 DEF Locals, Types
<1>5. /\ Needed' = Needed /\ Needed \in Nat \ {0} /\ w'.first \in 2 .. TotalClusters - Needed
      /\ TotalClusters \in Nat
  BY TypesAllocate, FatConstants
<1>6. w'.first \in FreeRuns({})
  <2>1. FreeRuns({}) \subseteq Nat
    BY <1>5 DEF FreeRuns
  <2> QED BY <1>1, <1>3, <1>4, <2>1, SmallestIs
<1>7. Run' = w'.first .. w'.first + Needed - 1 /\ Run' \subseteq Clusters
  BY <1>5 DEF Run, Clusters
<1>8. \A c \in Run' : fat[c] = 0
  BY <1>6, <1>7 DEF FreeRuns
<1>9. PICK S \in SUBSET Clusters : Claims(S)
  BY DEF GoodInv
<1>10. Writing' = Writing /\ Files' = Files /\ Intact' = Intact
  BY <1>2, <1>4 DEF Writing, Files, Intact
<1>11. FilesInv /\ FilesInv' /\ Taken' = Taken
  BY <1>2, <1>10, SameFiles DEF GoodInv
<1>12. Run' \cap Taken = {}
  BY <1>8, <1>11, TakenFacts
<1>13. DirInv' /\ CacheInv'
  BY <1>2, <1>4, <1>10 DEF GoodInv, DirInv, Slot, Named, CacheInv
<1>14. Progress'
  <2>1. ASSUME NEW j \in 0 .. Needed - 1 PROVE fat'[w'.first + j] = 0 /\ ~(j < w'.i)
    <3>1. w'.first + j \in Run'
      BY <1>5, <1>7
    <3> QED BY <1>2, <1>4, <1>8, <3>1
  <2> QED BY <1>2, <1>5, <2>1 DEF Progress
<1>15. PICK T \in SUBSET Clusters : T = S \cup Run'
  BY <1>7
<1>16. Claims(T)'
  <2>2. ASSUME NEW c \in T, fat[c] \in Clusters PROVE fat[c] \in T
    BY <1>8, <1>9, <1>15, <2>2, ClusterFacts DEF Claims
  <2>3. Claimants' = Claimants
    BY <1>2, <1>4 DEF Claimants
  <2>4. T \cap Taken = {}
    BY <1>9, <1>12, <1>15 DEF Claims
  <2> QED BY <1>2, <1>9, <1>10, <1>11, <1>15, <2>2, <2>3, <2>4 DEF Claims
<1>17. ASSUME clean', ~misread' PROVE NoLeak'
  <2>1. NoLeak /\ Held = ClustersFrom(fat, w.cluster)
    BY <1>1, <1>2, <1>17 DEF Held
  <2>2. w.cluster \notin Clusters
    BY <1>2, ClusterFacts DEF Locals
  <2>3. Held = {}
    BY <1>2, <2>1, <2>2, NoChain
  <2>4. Held' = {}
    BY <1>2, <1>4, <1>5 DEF Held
  <2> QED BY <1>2, <1>11, <2>1, <2>3, <2>4 DEF NoLeak
<1> QED BY <1>11, <1>13, <1>14, <1>16, <1>17 DEF GoodInv

LEMMA AllocateNoneKeeps ==
    ASSUME Types, Types', History, GoodInv, Good', clean /\ ~misread => NoLeak, AllocateNone
    PROVE  GoodInv' /\ (clean' /\ ~misread' => NoLeak')
<1>1. /\ pc = "free" /\ pc' = "dir" /\ ~InChain(w.cluster) /\ w \in Locals /\ fat \in Fats
      /\ w.size = 0 /\ w.first = 0 /\ w.left = 0
      /\ UNCHANGED <<fat, dir, data, cache, w, writes, content, failed, stale, clean, misread>>
  BY DEF AllocateNone, disk, history, Types, TypeOK, Fats
<1>2. Needed = 0 /\ Needed' = Needed /\ Run' = {}
  <2>1. Needed = 0 /\ Needed' = Needed
    BY <1>1, NeededIs DEF Needed
  <2> QED BY <1>1, <2>1 DEF Run
<1>3. PICK S \in SUBSET Clusters : Claims(S)
  BY DEF GoodInv
<1>4. Writing' = Writing /\ Files' = Files /\ Intact' = Intact /\ Claimants' = Claimants
  BY <1>1 DEF Writing, Files, Intact, Claimants
<1>5. FilesInv' /\ Taken' = Taken
  BY <1>1, <1>4, SameFiles DEF GoodInv
<1>6. DirInv' /\ CacheInv'
  BY <1>1, <1>4 DEF GoodInv, DirInv, Slot, Named, CacheInv
<1>7. Progress'
  BY <1>1, <1>2 DEF Progress
<1>8. Claims(S)'
  BY <1>1, <1>2, <1>3, <1>4, <1>5 DEF Claims
<1>9. ASSUME clean', ~misread' PROVE NoLeak'
  <2>1. NoLeak /\ Held = ClustersFrom(fat, w.cluster) /\ Held' = {}
    BY <1>1, <1>2, <1>9 DEF Held
  <2>2. w.cluster \notin Clusters
    BY <1>1, ClusterFacts DEF Locals
  <2>3. Held = {}
    BY <1>1, <2>1, <2>2, NoChain
  <2> QED BY <1>1, <1>5, <2>1, <2>3 DEF NoLeak
<1> QED BY <1>5, <1>6, <1>7, <1>8, <1>9 DEF GoodInv

(* The call fails or the machine stops: what it had claimed is left to the *)
(* next write of the name.                                                 *)
LEMMA StopKeeps ==
    ASSUME Types, Types', History, GoodInv, CacheInv',
           pc' = "idle", failed' = IF pc = "idle" THEN failed ELSE failed \cup {w.name},
           UNCHANGED <<fat, dir, data, content, stale>>
    PROVE  GoodInv'
<1>1. PICK S \in SUBSET Clusters : Claims(S)
  BY DEF GoodInv
<1>2. failed' \cup Writing' = failed \cup Writing
  BY DEF Writing
<1>3. Files' = Files /\ Intact' = Intact
  BY <1>2 DEF Files, Intact
<1>4. FilesInv' /\ Taken' = Taken
  BY <1>3, SameFiles DEF GoodInv
<1>5. DirInv' /\ Progress'
  BY DEF GoodInv, DirInv, Progress
<1>6. Claimants' \subseteq Claimants
  BY DEF Claimants, History
<1>7. Claims(S)'
  BY <1>1, <1>3, <1>4, <1>6 DEF Claims
<1> QED BY <1>4, <1>5, <1>7 DEF GoodInv

LEMMA FailKeeps ==
    ASSUME Types, Types', History, GoodInv, Fail, pc # "idle", UNCHANGED fat
    PROVE  GoodInv' /\ ~clean'
<1>1. /\ pc' = "idle" /\ failed' = failed \cup {w.name} /\ clean' = FALSE
      /\ UNCHANGED <<dir, data, cache, content, stale>>
  BY DEF Fail
<1>2. CacheInv'
  <2>1. failed' \cup Writing' = failed \cup Writing
    BY <1>1 DEF Writing
  <2> QED BY <1>1, <2>1 DEF GoodInv, CacheInv, Files
<1> QED BY <1>1, <1>2, StopKeeps

LEMMA CrashKeeps ==
    ASSUME Types, Types', History, GoodInv, Crash
    PROVE  GoodInv' /\ ~clean'
<1>1. /\ pc' = "idle" /\ clean' = FALSE
      /\ failed' = IF pc = "idle" THEN failed ELSE failed \cup {w.name}
      /\ UNCHANGED <<fat, dir, data, content, stale>>
      /\ cache' = ParseRootDir(dir, DirSectors) \/ cache' = <<>>
  BY DEF Crash, disk
<1>2. CacheInv'
  BY <1>1, ParseIs DEF CacheInv, Files
<1> QED BY <1>1, <1>2, StopKeeps

(* The new chain is linked from its first cluster on.                      *)
LEMMA LinkKeeps ==
    ASSUME Types, Types', History, GoodInv, Good', clean /\ ~misread => NoLeak, Link
    PROVE  GoodInv' /\ (clean' /\ ~misread' => NoLeak')
<1>1. /\ pc = "link" /\ w \in Locals /\ fat \in Fats
      /\ w.size > 0 /\ w.left = w.size /\ w.cluster = w.first
      /\ w.first \in 2 .. TotalClusters - Needed /\ w.i \in 0 .. Needed - 1
  BY DEF Link, Types, TypeOK, Fats
<1>2. Needed \in Nat /\ TotalClusters \in Nat /\ w.first \in Nat /\ w.i \in Nat
  BY <1>1, NeededIs, FatConstants
<1>3. /\ fat' = [fat EXCEPT ![w.first + w.i] = LinkValue]
      /\ w' = [w EXCEPT !.i = IF w.i + 1 = Needed THEN 0 ELSE w.i + 1]
      /\ pc' = IF w.i + 1 = Needed THEN "data" ELSE "link"
      /\ UNCHANGED <<dir, data, cache, writes, content, failed, stale, misread, clean>>
  BY DEF Link, history
<1>4. /\ w'.size = w.size /\ w'.left = w.left /\ w'.cluster = w.cluster /\ w'.name = w.name
      /\ w'.first = w.first /\ w'.entry = w.entry
      /\ w'.i = IF w.i + 1 = Needed THEN 0 ELSE w.i + 1
  BY <1>1, <1>3 DEF Locals
<1>5. Needed' = Needed /\ Run' = Run /\ Run = w.first .. w.first + Needed - 1
  BY <1>4 DEF Needed, Run
<1>6. PICK x \in Run : x = w.first + w.i
  BY <1>1, <1>2, <1>5
<1>7. PICK S \in SUBSET Clusters : Claims(S)
  BY DEF GoodInv
<1>8. x \in S /\ x \in Clusters /\ x \notin Taken /\ Run \subseteq S
  BY <1>1, <1>6, <1>7 DEF Claims
<1>9. /\ \A c \in Clusters : fat'[c] = IF c = x THEN LinkValue ELSE fat[c]
      /\ fat'[x] = LinkValue
  BY <1>1, <1>3, <1>6, <1>8 DEF Fats
<1>10. LinkValue = EOC \/ LinkValue \in Run
  BY <1>1, <1>2, <1>5 DEF LinkValue
<1>11. Writing' = Writing /\ Files' = Files /\ Intact' = Intact /\ Claimants' = Claimants
  BY <1>1, <1>3, <1>4 DEF Writing, Files, Intact, Claimants
<1>12. FilesInv' /\ Taken' = Taken
  <2>1. \A c \in Taken : fat'[c] = fat[c] /\ data'[c] = data[c]
    BY <1>3, <1>8, <1>9, TakenFacts DEF GoodInv
  <2> QED BY <1>3, <1>11, <2>1, SameFiles DEF GoodInv
<1>13. DirInv' /\ CacheInv'
  BY <1>1, <1>3, <1>4, <1>11 DEF GoodInv, DirInv, Slot, Named, CacheInv
<1>14. ASSUME NEW j \in 0 .. Needed - 1
       PROVE  /\ NewLink(j)' = NewLink(j)
              /\ j < w.i + 1 => fat'[w.first + j] = NewLink(j)
              /\ j > w.i => fat'[w.first + j] = 0
  <2>1. NewLink(j)' = NewLink(j)
    BY <1>4, <1>5 DEF NewLink
  <2>2. fat[w.first + j] = IF j < w.i THEN NewLink(j) ELSE 0
    BY <1>1 DEF GoodInv, Progress
  <2>3. w.first + j \in Clusters /\ (w.first + j = x <=> j = w.i)
    BY <1>1, <1>2, <1>6 DEF Clusters
  <2>4. fat'[w.first + j] = IF j = w.i THEN LinkValue ELSE fat[w.first + j]
    BY <1>9, <2>3
  <2>5. j = w.i => LinkValue = NewLink(j)
    BY DEF LinkValue, NewLink
  <2> QED BY <1>2, <2>1, <2>2, <2>4, <2>5
<1>15. Progress'
  <2>1. CASE w.i + 1 = Needed
    <3>1. pc' = "data" /\ w'.i = 0
      BY <1>3, <1>4, <2>1
    <3>2. \A j \in 0 .. Needed - 1 : fat'[w.first + j] = NewLink(j)'
      BY <1>2, <1>14, <2>1
    <3>3. Offset(0, 0) = 0 /\ 0 \in 0 .. Needed - 1 /\ w.first = w.first + 0
      BY <1>1, <1>2, ClusterSizeIs, FatConstants DEF Offset
    <3>4. ASSUME NEW j \in 0 .. Needed - 1, NEW s \in 0 .. SectorsPerCluster - 1
          PROVE  ~(Offset(j, s) < w.size - w.left)
      <4>1. Offset(j, s) \in Nat
        BY ClusterSizeIs, FatConstants DEF Offset
      <4>2. w.size - w.left = 0
        BY <1>1 DEF Locals
      <4> QED BY <4>1, <4>2
    <3>5. w.size - w.left = 0
      BY <1>1 DEF Locals
    <3>6. \E j \in 0 .. Needed - 1 : w'.cluster = w'.first + j /\ w'.size - w'.left = Offset(j, w'.i)
      BY <1>1, <1>4, <3>1, <3>3, <3>5
    <3> QED BY <1>4, <1>5, <3>1, <3>2, <3>4, <3>6 DEF Progress
  <2>2. CASE w.i + 1 # Needed
    <3>1. pc' = "link" /\ w'.i = w.i + 1
      BY <1>3, <1>4, <2>2
    <3>2. \A j \in 0 .. Needed - 1 : fat'[w.first + j] = IF j < w'.i THEN NewLink(j)' ELSE 0
      BY <1>2, <1>14, <3>1
    <3> QED BY <1>4, <1>5, <3>1, <3>2 DEF Progress
  <2> QED BY <2>1, <2>2
<1>16. Claims(S)'
  <2>1. ASSUME NEW c \in S, fat'[c] \in Clusters PROVE fat'[c] \in S
    BY <1>7, <1>8, <1>9, <1>10, <2>1, ClusterFacts DEF Claims
  <2>2. w.first \in Run
    BY <1>1, <1>2, <1>5
  <2> QED BY <1>1, <1>4, <1>5, <1>3, <1>7, <1>8, <1>11, <1>12, <2>1, <2>2 DEF Claims
<1>17. ASSUME clean', ~misread' PROVE NoLeak'
  <2>1. NoLeak /\ Held = w.first .. w.first + w.i - 1
    BY <1>1, <1>3, <1>17 DEF Held
  <2>2. Held' = w.first .. w.first + w.i
    BY <1>2, <1>3, <1>4, <1>5 DEF Held
  <2>3. Held' = Held \cup {x}
    BY <1>2, <1>6, <2>1, <2>2
  <2>4. LinkValue # 0
    BY <1>5, <1>8, <1>10, ClusterFacts
  <2>5. {c \in Clusters : fat'[c] # 0} = {c \in Clusters : fat[c] # 0} \cup {x}
    BY <1>8, <1>9, <2>4
  <2>6. pc' # "free"
    BY <1>3
  <2> QED BY <1>12, <2>1, <2>3, <2>5, <2>6 DEF NoLeak
<1> QED BY <1>12, <1>13, <1>15, <1>16, <1>17 DEF GoodInv

(* Offsets grow sector by sector.                                          *)
LEMMA OffsetOrder ==
    ASSUME NEW j \in Nat, NEW s \in 0 .. SectorsPerCluster - 1,
           NEW l \in Nat, NEW t \in 0 .. SectorsPerCluster - 1
    PROVE  /\ Offset(j, s) \in Nat
           /\ Offset(l, t) < Offset(j, s) + BytesPerSector =>
                Offset(l, t) < Offset(j, s) \/ (l = j /\ t = s)
<1>1. PICK C \in Nat \ {0}, B \in Nat \ {0}, P \in Nat \ {0} :
        C = ClusterSize /\ B = BytesPerSector /\ P = SectorsPerCluster /\ C = B * P
  BY FatConstants, ClusterSizeIs DEF ClusterSize
<1>2. s \in 0 .. P - 1 /\ t \in 0 .. P - 1
  BY <1>1
<1>3. PICK p \in Nat, q \in Nat : p = j * P /\ q = l * P
  OBVIOUS
<1>4. PICK a \in Nat, b \in Nat : a = p + s /\ b = q + t
  BY <1>2
<1>5. Offset(j, s) = a * B /\ Offset(l, t) = b * B
  <2>1. ASSUME NEW x \in Nat, NEW y \in 0 .. P - 1 PROVE Offset(x, y) = (x * P + y) * B
    <3>1. (x * P + y) * B = x * (B * P) + y * B
      OBVIOUS
    <3> QED BY <1>1, <3>1 DEF Offset
  <2> QED BY <1>2, <1>3, <1>4, <2>1
<1>6. a * B \in Nat /\ b * B \in Nat
  OBVIOUS
<1>7. a < b => a * B + B <= b * B
  BY MulMono
<1>8. b < a => b * B + B <= a * B
  BY MulMono
<1>9. a = b => j = l /\ s = t
  <2>1. j < l => p + P <= q
    BY <1>3, MulMono
  <2>2. l < j => q + P <= p
    BY <1>3, MulMono
  <2> QED BY <1>2, <1>3, <1>4, <2>1, <2>2
<1> QED BY <1>1, <1>5, <1>6, <1>7, <1>8, <1>9

LEMMA OffsetNext ==
    ASSUME NEW j \in Nat, NEW s \in 0 .. SectorsPerCluster - 1
    PROVE  /\ Offset(j, s + 1) = Offset(j, s) + BytesPerSector
           /\ s + 1 = SectorsPerCluster =>
                Offset(j + 1, 0) = Offset(j, s) + BytesPerSector
           /\ Offset(j, 0) = j * ClusterSize
<1>1. PICK C \in Nat \ {0}, B \in Nat \ {0}, P \in Nat \ {0} :
        C = ClusterSize /\ B = BytesPerSector /\ P = SectorsPerCluster /\ C = B * P
  BY FatConstants, ClusterSizeIs DEF ClusterSize
<1>2. s \in Nat /\ (s + 1) * B = s * B + B /\ (j + 1) * C = j * C + C
  BY <1>1
<1>3. s + 1 = P => C = s * B + B
  BY <1>1, <1>2
<1>4. j * C \in Nat /\ s * B \in Nat /\ 0 * B = 0
  BY <1>2
<1> QED BY <1>1, <1>2, <1>3, <1>4 DEF Offset

(* The data goes into the new chain, sector after sector.                  *)
LEMMA WriteSectorKeeps ==
    ASSUME Types, Types', History, GoodInv, Good', clean /\ ~misread => NoLeak, WriteSector
    PROVE  GoodInv' /\ (clean' /\ ~misread' => NoLeak')
<1>1. /\ pc = "data" /\ w \in Locals /\ fat \in Fats /\ w.left \in Nat /\ w.left > 0
      /\ w.size \in Nat /\ w.cluster \in Clusters /\ w.i \in 0 .. SectorsPerCluster - 1
      /\ w.left <= w.size
  BY ClusterFacts DEF WriteSector, Types, TypeOK, Fats, Locals
<1>2. /\ data' = [data EXCEPT ![w.cluster][w.i] = Chunk]
      /\ UNCHANGED <<fat, dir, cache, pc, writes, content, failed, stale, clean>>
  BY DEF WriteSector
<1>3. PICK left : left = w.left - Chunk.len
  OBVIOUS
<1>4. /\ left \in Nat /\ left < w.left /\ w.size - left \in Nat
      /\ w.size - left <= w.size - w.left + BytesPerSector
      /\ left > 0 => w.size - left = w.size - w.left + BytesPerSector
  BY <1>1, <1>3, FatConstants DEF Chunk
<1>5. /\ w'.size = w.size /\ w'.first = w.first /\ w'.name = w.name /\ w'.entry = w.entry
      /\ w'.left = left /\ misread' = misread
      /\ IF left > 0 /\ w.i + 1 < SectorsPerCluster
           THEN w'.i = w.i + 1 /\ w'.cluster = w.cluster
           ELSE w'.i = 0 /\ w'.cluster = fat[w.cluster]
  <2>1. CASE left > 0 /\ w.i + 1 < SectorsPerCluster
    <3>1. w' = [w EXCEPT !.left = left, !.i = w.i + 1] /\ misread' = misread
      BY <1>3, <2>1 DEF WriteSector
    <3> QED BY <1>1, <2>1, <3>1 DEF Locals
  <2>2. CASE ~(left > 0 /\ w.i + 1 < SectorsPerCluster)
    <3>1. PICK got \in ReadsOf(1) :
            /\ w' = [w EXCEPT !.left = left, !.i = 0,
                       !.cluster = IF got = 1 THEN fat[w.cluster] ELSE 0]
            /\ misread' = (misread \/ got = 0)
      BY <1>3, <2>2 DEF WriteSector
    <3>2. got = 1
      <4>1. got # 0
        BY <3>1, Zenon DEF Good
      <4> QED BY <4>1 DEF ReadsOf
    <3>3. misread' = misread
      BY <3>1, <3>2 DEF Types
    <3> QED BY <1>1, <2>2, <3>1, <3>2, <3>3 DEF Locals
  <2> QED BY <2>1, <2>2
<1>6. Needed' = Needed /\ Run' = Run /\ Needed \in Nat /\ w.size <= Needed * ClusterSize
  BY <1>1, <1>5, NeededIs DEF Needed, Run
<1>7. PICK n \in 0 .. Needed - 1 : w.cluster = w.first + n /\ w.size - w.left = Offset(n, w.i)
  BY <1>1 DEF GoodInv, Progress
<1>8. PICK S \in SUBSET Clusters : Claims(S)
  BY DEF GoodInv
<1>9. w.cluster \in S /\ w.cluster \notin Taken
  BY <1>1, <1>8, ClusterFacts DEF Claims
<1>10. Writing' = Writing /\ Files' = Files /\ Intact' = Intact /\ Claimants' = Claimants
  BY <1>1, <1>2, <1>5 DEF Writing, Files, Intact, Claimants
<1>11. FilesInv' /\ Taken' = Taken
  <2>1. \A c \in Taken : fat'[c] = fat[c] /\ data'[c] = data[c]
    BY <1>2, <1>9, TakenFacts DEF GoodInv, Types, TypeOK
  <2> QED BY <1>2, <1>10, <2>1, SameFiles DEF GoodInv
<1>12. DirInv' /\ CacheInv'
  BY <1>1, <1>2, <1>5, <1>10 DEF GoodInv, DirInv, Slot, Named, CacheInv
<1>13. w.first \in Nat /\ n \in Nat /\ BytesPerSector \in Nat
  BY <1>1, <1>6, FatConstants, FirstIs
<1>14. Chunk = NewSector(Offset(n, w.i))
  BY <1>1, <1>7 DEF Chunk, NewSector
<1>15. ASSUME NEW j \in 0 .. Needed - 1, NEW s \in 0 .. SectorsPerCluster - 1,
              Offset(j, s) < w.size - left
       PROVE  data'[w.first + j][s] = NewSector(Offset(j, s))
  <2>1. w.first + j \in Clusters
    <3>1. w.first + j \in Run
      BY <1>6, <1>13 DEF Run
    <3> QED BY <1>1, <1>8, <3>1 DEF Claims
  <2>2. CASE j = n /\ s = w.i
    <3>1. data \in [Clusters -> [0 .. SectorsPerCluster - 1 -> Sector]]
      BY DEF Types, TypeOK
    <3>2. data'[w.cluster][w.i] = Chunk
      BY <1>1, <1>2, <3>1
    <3> QED BY <1>7, <1>14, <2>2, <3>2
  <2>3. CASE ~(j = n /\ s = w.i)
    <3>1. Offset(j, s) \in Nat /\ Offset(n, w.i) \in Nat /\ j \in Nat
      BY <1>1, <1>13, OffsetOrder
    <3>2. Offset(j, s) < Offset(n, w.i) + BytesPerSector
      BY <1>1, <1>4, <1>7, <1>13, <1>15, <3>1
    <3>3. Offset(j, s) < Offset(n, w.i)
      BY <1>1, <1>13, <2>3, <3>1, <3>2, OffsetOrder
    <3>4. data[w.first + j][s] = NewSector(Offset(j, s))
      BY <1>1, <1>7, <3>3 DEF GoodInv, Progress
    <3>5. w.first + j # w.cluster \/ s # w.i
      BY <1>7, <1>13, <2>3, <3>1
    <3>6. data'[w.first + j][s] = data[w.first + j][s]
      <4>1. data \in [Clusters -> [0 .. SectorsPerCluster - 1 -> Sector]]
        BY DEF Types, TypeOK
      <4> QED BY <1>1, <1>2, <2>1, <3>5, <4>1
    <3> QED BY <3>4, <3>6
  <2> QED BY <2>2, <2>3
<1>16. fat[w.cluster] = NewLink(n)
  BY <1>1, <1>7 DEF GoodInv, Progress
<1>17. ASSUME left > 0
       PROVE  \E j \in 0 .. Needed - 1 : /\ w'.cluster = w.first + j
                                          /\ w.size - left = Offset(j, w'.i)
  <2>1. w.size - left = Offset(n, w.i) + BytesPerSector
    BY <1>4, <1>7, <1>17
  <2>2. CASE w.i + 1 < SectorsPerCluster
    <3>1. Offset(n, w.i + 1) = Offset(n, w.i) + BytesPerSector
      BY <1>1, <1>13, OffsetNext
    <3>2. w'.i = w.i + 1 /\ w'.cluster = w.cluster
      BY <1>5, <1>17, <2>2
    <3> QED BY <1>7, <2>1, <3>1, <3>2
  <2>3. CASE ~(w.i + 1 < SectorsPerCluster)
    <3>1. w.i + 1 = SectorsPerCluster
      BY <1>1, <2>3, FatConstants
    <3>2. Offset(n + 1, 0) = Offset(n, w.i) + BytesPerSector
      BY <1>1, <1>13, <3>1, OffsetNext
    <3>3. Offset(n + 1, 0) = (n + 1) * ClusterSize
      <4>1. n + 1 \in Nat /\ w.i \in 0 .. SectorsPerCluster - 1
        BY <1>1, <1>13
      <4>2. PICK m \in Nat : m = n + 1
        BY <4>1
      <4>3. Offset(m, 0) = m * ClusterSize
        BY <4>1, OffsetNext
      <4> QED BY <4>2, <4>3
    <3>4. n + 1 \in 0 .. Needed - 1
      <4>1. PICK N \in Nat, C \in Nat \ {0} : N = Needed /\ C = ClusterSize
        BY <1>6, ClusterSizeIs
      <4>2. (n + 1) * C < w.size /\ w.size <= N * C
        BY <1>1, <1>4, <1>6, <1>17, <2>1, <3>2, <3>3, <4>1
      <4>3. n + 1 # N
        BY <1>1, <4>1, <4>2
      <4> QED BY <1>13, <4>1, <4>3
    <3>5. NewLink(n) = w.first + n + 1
      BY <1>6, <1>13, <3>4 DEF NewLink
    <3>6. w'.i = 0 /\ w'.cluster = w.first + (n + 1)
      BY <1>5, <1>13, <1>16, <2>3, <3>5
    <3> QED BY <2>1, <3>2, <3>4, <3>6
  <2> QED BY <2>2, <2>3
<1>18. Progress'
  <2>1. \A j : NewLink(j)' = NewLink(j)
    BY <1>5, <1>6 DEF NewLink
  <2>2. \A o : NewSector(o)' = NewSector(o)
    BY <1>2, <1>5 DEF NewSector
  <2>3. pc' = "data"
    BY <1>1, <1>2
  <2>4. \A j \in 0 .. Needed - 1 : fat'[w'.first + j] = NewLink(j)'
    BY <1>1, <1>2, <1>5, <2>1 DEF GoodInv, Progress
  <2>5. \A j \in 0 .. Needed - 1, s \in 0 .. SectorsPerCluster - 1 :
          Offset(j, s) < w'.size - w'.left => data'[w'.first + j][s] = NewSector(Offset(j, s))'
    BY <1>5, <1>15, <2>2
  <2>6. w'.left > 0 => \E j \in 0 .. Needed - 1 : /\ w'.cluster = w'.first + j
                                                   /\ w'.size - w'.left = Offset(j, w'.i)
    BY <1>5, <1>17
  <2> QED BY <1>6, <2>3, <2>4, <2>5, <2>6 DEF Progress
<1>19. Claims(S)'
  <2>1. w'.cluster \in S \cup {0, EOC}
    BY <1>1, <1>5, <1>8, <1>9 DEF Claims, Fats
  <2> QED BY <1>1, <1>2, <1>6, <1>8, <1>10, <1>11, <2>1 DEF Claims
<1>20. ASSUME clean', ~misread' PROVE NoLeak'
  <2>1. NoLeak /\ Held' = Held
    BY <1>1, <1>2, <1>5, <1>6, <1>20 DEF Held
  <2> QED BY <1>1, <1>2, <1>11, <2>1 DEF NoLeak
<1> QED BY <1>11, <1>12, <1>18, <1>19, <1>20 DEF GoodInv

LEMMA DataDoneKeeps ==
    ASSUME Types, Types', History, GoodInv, Good', clean /\ ~misread => NoLeak, DataDone
    PROVE  GoodInv' /\ (clean' /\ ~misread' => NoLeak')
<1>1. /\ pc = "data" /\ pc' = "dir" /\ w \in Locals
      /\ ~(w.left > 0 /\ InChain(w.cluster))
      /\ UNCHANGED <<fat, dir, data, cache, w, writes, content, failed, stale, clean, misread>>
  BY DEF DataDone, disk, history, Types
<1>2. Needed' = Needed /\ Run' = Run
  BY <1>1 DEF Needed, Run
<1>3. PICK S \in SUBSET Clusters : Claims(S)
  BY DEF GoodInv
<1>4. w.left = 0
  <2>1. SUFFICES ASSUME w.left > 0 PROVE FALSE
    BY <1>1 DEF Locals
  <2>2. PICK j \in 0 .. Needed - 1 : w.cluster = w.first + j
    BY <1>1, <2>1 DEF GoodInv, Progress
  <2>3. w.cluster \in Run
    BY <1>1, <2>2, NeededIs, FirstIs DEF Run
  <2>4. w.cluster \in Clusters
    BY <1>1, <1>3, <2>3 DEF Claims
  <2> QED BY <1>1, <2>1, <2>4, ClusterFacts
<1>5. Writing' = Writing /\ Files' = Files /\ Intact' = Intact /\ Claimants' = Claimants
  BY <1>1 DEF Writing, Files, Intact, Claimants
<1>6. FilesInv' /\ Taken' = Taken
  BY <1>1, <1>5, SameFiles DEF GoodInv
<1>7. DirInv' /\ CacheInv'
  BY <1>1, <1>5 DEF GoodInv, DirInv, Slot, Named, CacheInv
<1>8. Progress'
  BY <1>1, <1>2, <1>4 DEF GoodInv, Progress, NewLink, NewSector
<1>9. Claims(S)'
  BY <1>1, <1>2, <1>3, <1>5, <1>6 DEF Claims
<1>10. ASSUME clean', ~misread' PROVE NoLeak'
  <2>1. NoLeak /\ Held' = Held
    BY <1>1, <1>2, <1>10 DEF Held
  <2> QED BY <1>1, <1>6, <2>1 DEF NoLeak
<1> QED BY <1>6, <1>7, <1>8, <1>9, <1>10 DEF GoodInv

(* The new chain holds the buffer that was passed.                         *)
LEMMA WrittenHolds ==
    ASSUME Types, GoodInv, pc = "dir"
    PROVE  /\ Holds(fat, data, NewEntry, [ver |-> writes, size |-> w.size])
           /\ ClustersFrom(fat, w.first) = Run
           /\ Run \cap Taken = {}
<1>1. /\ w \in Locals /\ fat \in Fats /\ w.size \in Nat /\ w.left = 0
      /\ w.size > 0 \/ w.first = 0
  BY DEF Types, TypeOK, Fats, Locals, GoodInv, Progress
<1>2. PICK N \in Nat : /\ N = Needed /\ N = Needs(w.size)
                       /\ (w.size = 0 => N = 0) /\ (w.size > 0 => N > 0)
  BY <1>1, NeedsIs DEF Needed
<1>3. PICK first \in Nat : first = w.first /\ Run = first .. first + N - 1
  BY <1>1, <1>2, FirstIs DEF Run
<1>4. Run \subseteq Clusters /\ Run \cap Taken = {}
  <2>1. PICK S \in SUBSET Clusters : Claims(S)
    BY DEF GoodInv
  <2> QED BY <2>1 DEF Claims
<1>5. PICK s : s = Chain(fat, first)
  OBVIOUS
<1>6. /\ Chained(fat, first, s) /\ Len(s) = N /\ ClustersFrom(fat, first) = Run
      /\ \A j \in 0 .. N - 1 : s[j + 1] = first + j
  <2>1. CASE w.size = 0
    <3>1. first = 0 /\ first \notin Clusters
      BY <1>1, <1>3, <2>1, ClusterFacts
    <3>2. Chained(fat, first, <<>>) /\ s = <<>> /\ ClustersFrom(fat, first) = {}
      BY <1>1, <1>5, <3>1, NoChain
    <3>3. N = 0 /\ Run = {}
      BY <1>2, <1>3, <2>1
    <3> QED BY <3>2, <3>3
  <2>2. CASE w.size > 0
    <3>1. N \in Nat \ {0} /\ first \in 2 .. TotalClusters + 2 - N
      <4>1. first \in Run /\ first + N - 1 \in Run /\ N > 0
        BY <1>2, <1>3, <2>2
      <4>2. first \in Clusters /\ first + N - 1 \in Clusters
        BY <1>4, <4>1
      <4> QED BY <4>1, <4>2, FatConstants DEF Clusters
    <3>2. \A j \in 0 .. N - 1 : fat[first + j] = IF j + 1 = N THEN EOC ELSE first + j + 1
      BY <1>2, <1>3 DEF GoodInv, Progress, NewLink
    <3>3. /\ Chained(fat, first, RunSeq(first, N)) /\ s = RunSeq(first, N)
          /\ Len(RunSeq(first, N)) = N /\ ClustersFrom(fat, first) = first .. first + N - 1
      <4>0. PICK m \in Nat \ {0} : m = N
        BY <3>1
      <4>1. PICK f \in Fats, c \in 2 .. TotalClusters + 2 - m : f = fat /\ c = first
        BY <1>1, <3>1, <4>0
      <4>2. \A j \in 0 .. m - 1 : f[c + j] = IF j + 1 = m THEN EOC ELSE c + j + 1
        BY <3>2, <4>0, <4>1
      <4>3. /\ Chained(f, c, RunSeq(c, m)) /\ Chain(f, c) = RunSeq(c, m)
            /\ Len(RunSeq(c, m)) = m /\ ClustersFrom(f, c) = c .. c + m - 1
        BY <4>2, RunChained
      <4> QED BY <1>5, <4>0, <4>1, <4>3
    <3>4. ASSUME NEW j \in 0 .. N - 1 PROVE RunSeq(first, N)[j + 1] = first + j
      BY DEF RunSeq
    <3> QED BY <1>3, <3>3, <3>4
  <2> QED BY <1>1, <2>1, <2>2
<1>7. ASSUME NEW k \in 0 .. w.size - 1 PROVE ByteAt(data, s, k) = <<writes, k>>
  <2>1. PICK j \in 0 .. N - 1, t \in 0 .. SectorsPerCluster - 1, o \in 0 .. BytesPerSector - 1 :
          /\ k = Offset(j, t) + o /\ Offset(j, t) \in Nat
          /\ k \div ClusterSize = j
          /\ (k % ClusterSize) \div BytesPerSector = t
          /\ k % BytesPerSector = o
    BY <1>1, <1>2, PlaceOf
  <2>2. PICK off \in Nat : off = Offset(j, t)
    BY <2>1
  <2>3. off < w.size /\ o < w.size - off /\ k = off + o /\ o < BytesPerSector
    BY <1>1, <2>1, <2>2, FatConstants
  <2>4. Offset(j, t) < w.size - w.left
    BY <1>1, <2>2, <2>3
  <2>5. data[w.first + j][t] = NewSector(Offset(j, t))
    BY <1>2, <2>4 DEF GoodInv, Progress
  <2>6. /\ NewSector(off).ver = writes /\ NewSector(off).off = off
        /\ NewSector(off).len \in {w.size - off, BytesPerSector}
    BY DEF NewSector
  <2>7. s[j + 1] = w.first + j
    BY <1>3, <1>6
  <2>8. data[s[j + 1]][t] = NewSector(off)
    BY <2>2, <2>5, <2>7
  <2>9. o < NewSector(off).len
    BY <2>3, <2>6
  <2> QED BY <2>1, <2>3, <2>6, <2>8, <2>9 DEF ByteAt
<1>8. Holds(fat, data, NewEntry, [ver |-> writes, size |-> w.size])
  <2>1. PICK entry, written : entry = NewEntry /\ written = [ver |-> writes, size |-> w.size]
    OBVIOUS
  <2>2. /\ entry.first = first /\ entry.size = w.size
        /\ written.size = w.size /\ written.ver = writes
    BY <1>3, <2>1 DEF NewEntry
  <2>3. Holds(fat, data, entry, written)
    BY <1>2, <1>5, <1>6, <1>7, <2>2 DEF Holds
  <2> QED BY <2>1, <2>3
<1> QED BY <1>3, <1>4, <1>6, <1>8

LEMMA FinishOrderly ==
    ASSUME Types, GoodInv, Finish
    PROVE  /\ Orderly(dir')
           /\ \A e \in 1 .. DirEntries : dir'[e] = IF e = w.entry THEN NewEntry ELSE dir[e]
           /\ \A e \in Files : dir[e].name = w.name <=> e = w.entry
           /\ w.entry \in 1 .. DirEntries
<1>1. pc = "dir" /\ w \in Locals /\ w.entry \in 1 .. DirEntries /\ Slot /\ Orderly(dir)
  BY DEF Finish, Types, Locals, GoodInv, DirInv
<1>2. \A e \in 1 .. DirEntries : dir'[e] = IF e = w.entry THEN NewEntry ELSE dir[e]
  BY <1>1 DEF Finish, Types, TypeOK
<1>3. ASSUME NEW e \in 1 .. DirEntries, Named(e), dir[e].name = w.name PROVE e = w.entry
  BY <1>1, <1>3, NamesDiffer DEF Slot
<1>4. ASSUME NEW e \in Files PROVE dir[e].name = w.name <=> e = w.entry
  <2>1. e \in 1 .. DirEntries /\ Named(e) /\ dir[e].kind = "file"
    BY DEF Files, Named
  <2>2. e = w.entry => dir[e].name = w.name
    BY <1>1, <2>1 DEF Slot
  <2> QED BY <1>3, <2>1, <2>2
<1>5. NewEntry.kind = "file" /\ NewEntry.name = w.name
  BY DEF NewEntry
<1>6. ASSUME NEW e \in 1 .. DirEntries, NEW f \in 1 .. DirEntries,
             {dir'[e].kind, dir'[f].kind} \subseteq {"file", "label"}, dir'[e].name = dir'[f].name
      PROVE  e = f
  <2>1. e # w.entry => Named(e) /\ dir'[e].name = dir[e].name
    BY <1>2, <1>6 DEF Named
  <2>2. f # w.entry => Named(f) /\ dir'[f].name = dir[f].name
    BY <1>2, <1>6 DEF Named
  <2>3. e = w.entry => dir'[e].name = w.name
    BY <1>2, <1>5
  <2>4. f = w.entry => dir'[f].name = w.name
    BY <1>2, <1>5
  <2> QED BY <1>1, <1>3, <1>6, <2>1, <2>2, <2>3, <2>4, NamesDiffer
<1>7. ASSUME NEW e \in 1 .. DirEntries, NEW f \in 1 .. DirEntries,
             SectorOf(e) = SectorOf(f), e < f, dir'[e].kind = "end"
      PROVE  dir'[f].kind = "end"
  <2>1. e # w.entry /\ dir[e].kind = "end"
    BY <1>2, <1>5, <1>7
  <2>2. f # w.entry
    <3>1. f = w.entry => e \in 1 .. w.entry - 1
      BY <1>1, <1>7, FatConstants
    <3> QED BY <1>1, <1>7, <2>1, <3>1 DEF Slot
  <2> QED BY <1>1, <1>2, <1>7, <2>1, <2>2 DEF Orderly
<1>8. ASSUME NEW e \in 1 .. DirEntries, dir'[e].kind = "label" PROVE dir'[e].first = 0
  BY <1>1, <1>2, <1>5, <1>8 DEF Orderly
<1>9. Orderly(dir')
  BY <1>6, <1>7, <1>8 DEF Orderly
<1> QED BY <1>1, <1>2, <1>4, <1>9

(* The entry is written: the file joins the intact ones.                   *)
LEMMA FinishKeeps ==
    ASSUME Types, Types', History, GoodInv, Good', clean /\ ~misread => NoLeak, Finish
    PROVE  GoodInv' /\ (clean' /\ ~misread' => NoLeak')
<1>1. PICK k \in ReadsOf(DirSectors) :
        cache' = ParseRootDir(dir', k) /\ misread' = (misread \/ k < DirSectors)
  BY DEF Finish
<1>2. /\ pc = "dir" /\ pc' = "idle" /\ w \in Locals /\ w.name \in DiskNames /\ fat \in Fats
      /\ failed' = failed \ {w.name}
      /\ content' = [content EXCEPT ![w.name] = [ver |-> writes, size |-> w.size]]
      /\ UNCHANGED <<fat, data, writes, stale, clean>>
  BY DEF Finish, Types, TypeOK, Fats, Locals
<1>0. PICK n : n = w.entry
  OBVIOUS
<1>3. /\ Orderly(dir') /\ n \in 1 .. DirEntries
      /\ \A e \in 1 .. DirEntries : dir'[e] = IF e = n THEN NewEntry ELSE dir[e]
      /\ \A e \in Files : dir[e].name = w.name <=> e = n
  BY <1>0, FinishOrderly
<1>4. /\ Holds(fat, data, NewEntry, [ver |-> writes, size |-> w.size])
      /\ ClustersFrom(fat, w.first) = Run
      /\ Run \cap Taken = {}
  BY <1>2, WrittenHolds
<1>5. NewEntry.kind = "file" /\ NewEntry.name = w.name /\ NewEntry.first = w.first
  BY DEF NewEntry
<1>6. DirInv' /\ Progress'
  BY <1>2, <1>3 DEF DirInv, Progress
<1>7. CacheInv'
  BY <1>1, ParseIs DEF CacheInv, Files
<1>8. Writing' = {} /\ Writing = {w.name}
  BY <1>2 DEF Writing
<1>9. ASSUME NEW e \in 1 .. DirEntries, e # n
      PROVE  (e \in Intact' <=> e \in Intact) /\ dir'[e] = dir[e]
  <2>1. dir'[e] = dir[e]
    BY <1>3, <1>9
  <2>2. e \in Files => dir[e].name # w.name
    BY <1>3, <1>9
  <2> QED BY <1>2, <1>8, <2>1, <2>2 DEF Intact, Files
<1>10. n \in Intact' /\ n \notin Intact /\ dir'[n] = NewEntry
  <2>1. dir'[n] = NewEntry
    BY <1>3
  <2> QED BY <1>2, <1>3, <1>5, <1>8, <2>1 DEF Intact, Files
<1>11. ClustersOf(n)' = Run
  BY <1>2, <1>4, <1>5, <1>10 DEF ClustersOf
<1>12. ASSUME NEW e \in Intact', e # n
       PROVE  /\ e \in Intact /\ ClustersOf(e)' = ClustersOf(e)
              /\ Holds(fat', data', dir'[e], content'[dir'[e].name])
  <2>1. e \in 1 .. DirEntries
    BY DEF Intact, Files
  <2>2. e \in Intact /\ dir'[e] = dir[e]
    BY <1>9, <1>12, <2>1
  <2>3. /\ dir[e].name \in DiskNames /\ dir[e].name # w.name
        /\ Holds(fat, data, dir[e], content[dir[e].name])
    BY <1>3, <1>12, <2>2, IntactFacts DEF GoodInv
  <2>4. content'[dir[e].name] = content[dir[e].name]
    BY <1>2, <2>3 DEF Types
  <2>5. ClustersOf(e)' = ClustersOf(e)
    BY <1>2, <2>2 DEF ClustersOf
  <2> QED BY <1>2, <2>2, <2>3, <2>4, <2>5
<1>13. FilesInv'
  <2>1. Holds(fat', data', dir'[n], content'[dir'[n].name])
    <3>1. content'[w.name] = [ver |-> writes, size |-> w.size]
      BY <1>2 DEF Types
    <3> QED BY <1>2, <1>4, <1>5, <1>10, <3>1
  <2>2. ASSUME NEW e \in Intact' PROVE Holds(fat', data', dir'[e], content'[dir'[e].name])
    BY <1>12, <2>1
  <2>3. ASSUME NEW e \in Intact' PROVE e # n => ClustersOf(e)' \subseteq Taken
    BY <1>12 DEF Taken
  <2>4. ASSUME NEW e \in Intact', NEW f \in Intact', e # f
        PROVE  ClustersOf(e)' \cap ClustersOf(f)' = {}
    <3>1. CASE e = n
      BY <1>4, <1>11, <2>3, <2>4, <3>1
    <3>2. CASE f = n
      BY <1>4, <1>11, <2>3, <2>4, <3>2
    <3>3. CASE e # n /\ f # n
      BY <1>12, <2>4, <3>3 DEF GoodInv, FilesInv
    <3> QED BY <3>1, <3>2, <3>3
  <2> QED BY <2>2, <2>4 DEF FilesInv
<1>14. Taken' = Taken \cup Run
  <2>1. ASSUME NEW c \in Taken' PROVE c \in Taken \cup Run
    <3>1. PICK e \in Intact' : c \in ClustersOf(e)'
      BY DEF Taken
    <3> QED BY <1>11, <1>12, <3>1 DEF Taken
  <2>2. ASSUME NEW c \in Taken PROVE c \in Taken'
    <3>1. PICK e \in Intact : c \in ClustersOf(e)
      BY DEF Taken
    <3>2. e \in 1 .. DirEntries /\ e # n
      BY <1>10 DEF Intact, Files
    <3>3. e \in Intact' /\ ClustersOf(e)' = ClustersOf(e)
      BY <1>9, <1>12, <3>2
    <3> QED BY <3>1, <3>3 DEF Taken
  <2>3. ASSUME NEW c \in Run PROVE c \in Taken'
    BY <1>10, <1>11 DEF Taken
  <2> QED BY <2>1, <2>2, <2>3
<1>15. Claims({})'
  <2>1. Claimants' = {}
    BY <1>2 DEF Claimants, History
  <2> QED BY <1>2, <2>1 DEF Claims
<1>16. ASSUME clean', ~misread' PROVE NoLeak'
  <2>1. NoLeak /\ Held = Run /\ Held' = {}
    BY <1>1, <1>2, <1>16 DEF Held
  <2> QED BY <1>2, <1>14, <2>1 DEF NoLeak
<1> QED BY <1>6, <1>7, <1>13, <1>15, <1>16 DEF GoodInv

------------------------------------------------------------------------------
LEMMA InvInit == Init => Inv
<1> SUFFICES ASSUME Init PROVE Inv
  OBVIOUS
<1>1. PICK d \in Disks : fat = d.fat /\ dir = d.dir /\ data = d.data /\ content = d.content
  BY DEF Init
<1>2. /\ cache = ParseRootDir(dir, DirSectors) /\ pc = "idle" /\ writes = 0
      /\ failed = {} /\ stale = {} /\ spoiled = FALSE /\ misread = FALSE /\ clean = TRUE
  BY DEF Init
<1>3. /\ fat \in [Clusters -> {0, EOC} \cup Clusters]
      /\ data \in [Clusters -> [0 .. SectorsPerCluster - 1 -> Sector]]
      /\ content \in [DiskNames -> [ver : Nat, size : Nat]]
      /\ DOMAIN dir = 1 .. DirEntries
      /\ \A e \in 1 .. DirEntries : dir[e].first \in {0} \cup Clusters
      /\ Orderly(dir)
      /\ \A e \in Files : /\ dir[e].name \in DiskNames
                           /\ Holds(fat, data, dir[e], content[dir[e].name])
      /\ \A e, f \in Files : e # f => ClustersOf(e) \cap ClustersOf(f) = {}
      /\ {c \in Clusters : fat[c] # 0} = UNION {ClustersOf(e) : e \in Files}
  <2> DEFINE files == {e \in 1 .. DirEntries : d.dir[e].kind = "file"}
             used(e) == ClustersFrom(d.fat, d.dir[e].first)
  <2>1. Files = files /\ \A e : ClustersOf(e) = used(e)
    BY <1>1 DEF Files, ClustersOf
  <2>2. /\ d.fat \in [Clusters -> {0, EOC} \cup Clusters]
        /\ d.data \in [Clusters -> [0 .. SectorsPerCluster - 1 -> Sector]]
        /\ d.content \in [DiskNames -> [ver : Nat, size : Nat]]
        /\ DOMAIN d.dir = 1 .. DirEntries
        /\ \A e \in 1 .. DirEntries : d.dir[e].first \in {0} \cup Clusters
        /\ Orderly(d.dir)
        /\ \A e \in files : /\ d.dir[e].name \in DiskNames
                            /\ Holds(d.fat, d.data, d.dir[e], d.content[d.dir[e].name])
        /\ \A e, f \in files : e # f => used(e) \cap used(f) = {}
        /\ {c \in Clusters : d.fat[c] # 0} = UNION {used(e) : e \in files}
    BY DisksSound, Zenon
  <2> HIDE DEF files, used
  <2>3. UNION {ClustersOf(e) : e \in Files} = UNION {used(e) : e \in files}
    BY <2>1
  <2> QED BY <1>1, <2>1, <2>2, <2>3
<1>4. Types
  <2>1. Len(cache) <= CacheMax
    BY <1>2, ParseIs
  <2> QED BY <1>2, <1>3, <2>1 DEF Types, TypeOK
<1>5. Writing = {} /\ Intact = Files /\ Claimants = {} /\ Held = {}
  BY <1>2 DEF Writing, Intact, Claimants, Held, Files
<1>6. DirInv /\ FilesInv /\ Progress
  BY <1>2, <1>3, <1>5 DEF DirInv, FilesInv, Progress
<1>7. CacheInv
  BY <1>2, ParseIs DEF CacheInv, Files
<1>8. Claims({})
  BY <1>2, <1>5 DEF Claims
<1>9. NoLeak
  BY <1>2, <1>3, <1>5 DEF NoLeak, Taken
<1>10. History
  BY <1>2 DEF History
<1> QED BY <1>4, <1>6, <1>7, <1>8, <1>9, <1>10 DEF Inv, GoodInv

(* A failed read and a spoiled name are remembered.                        *)
LEMMA GoodBefore ==
    ASSUME Types, [Next]_vars, Good'
    PROVE  Good
<1>1. (misread => misread') /\ (spoiled => spoiled')
  <2>1. ASSUME NEW n \in UserNames, NEW size \in Sizes, Begin(n, size)
        PROVE  (misread => misread') /\ (spoiled => spoiled')
    BY <2>1 DEF Begin
  <2>2. CASE FreeCluster
    BY <2>2 DEF FreeCluster
  <2>3. CASE Allocate
    BY <2>3 DEF Allocate
  <2>4. CASE AllocateFails \/ WriteFails
    <3>1. Fail /\ UNCHANGED <<fat, misread>>
      BY <2>4 DEF AllocateFails, WriteFails
    <3>2. misread' = misread /\ spoiled' = spoiled
      BY <3>1 DEF Fail
    <3> QED BY <3>2
  <2>5. CASE AllocateNone \/ Link \/ DataDone
    BY <2>5 DEF AllocateNone, Link, DataDone, history
  <2>6. CASE WriteSector
    BY <2>6 DEF WriteSector
  <2>7. CASE Finish
    BY <2>7 DEF Finish
  <2>8. CASE Crash
    BY <2>8 DEF Crash
  <2>9. CASE ReadOrList \/ UNCHANGED vars
    BY <2>9 DEF ReadOrList, vars, history
  <2> QED BY <2>1, <2>2, <2>3, <2>4, <2>5, <2>6, <2>7, <2>8, <2>9 DEF Next
<1> QED BY <1>1 DEF Good

LEMMA IdleKeeps ==
    ASSUME GoodInv, clean /\ ~misread => NoLeak, UNCHANGED vars
    PROVE  GoodInv' /\ (clean' /\ ~misread' => NoLeak')
<1>1. UNCHANGED <<fat, dir, data, cache, pc, w, writes, content, failed, stale, misread, clean>>
  BY DEF vars, disk, history
<1>2. /\ Files' = Files /\ Writing' = Writing /\ Intact' = Intact /\ Taken' = Taken
      /\ Needed' = Needed /\ Run' = Run /\ Claimants' = Claimants /\ Held' = Held
  BY <1>1 DEF Files, Writing, Intact, Taken, ClustersOf, Needed, Run, Claimants, Held
<1>3. PICK S \in SUBSET Clusters : Claims(S)
  BY DEF GoodInv
<1>4. Claims(S)'
  BY <1>1, <1>2, <1>3 DEF Claims
<1>5. DirInv' /\ CacheInv' /\ FilesInv'
  BY <1>1, <1>2 DEF GoodInv, DirInv, Slot, Named, CacheInv, FilesInv, ClustersOf
<1>6. Progress'
  BY <1>1, <1>2 DEF GoodInv, Progress, NewLink, NewSector
<1>7. NoLeak => NoLeak'
  BY <1>1, <1>2 DEF NoLeak
<1> QED BY <1>1, <1>4, <1>5, <1>6, <1>7 DEF GoodInv

LEMMA GoodKept ==
    ASSUME Types, Types', History, GoodInv, Good', clean /\ ~misread => NoLeak, [Next]_vars
    PROVE  GoodInv' /\ (clean' /\ ~misread' => NoLeak')
<1>1. CASE AllocateFails
  <2>1. pc # "idle" /\ Fail /\ UNCHANGED fat
    BY <1>1 DEF AllocateFails
  <2> QED BY <2>1, FailKeeps
<1>2. CASE WriteFails
  <2>1. pc # "idle" /\ Fail /\ UNCHANGED fat
    BY <1>2 DEF WriteFails
  <2> QED BY <2>1, FailKeeps
<1>3. CASE ReadOrList \/ UNCHANGED vars
  BY <1>3, IdleKeeps DEF ReadOrList
<1> QED BY <1>1, <1>2, <1>3, BeginKeeps, FreeClusterKeeps, AllocateKeeps, AllocateNoneKeeps,
           LinkKeeps, WriteSectorKeeps, DataDoneKeeps, FinishKeeps, CrashKeeps DEF Next

LEMMA InvKept == Inv /\ [Next]_vars => Inv'
<1> SUFFICES ASSUME Inv, [Next]_vars PROVE Inv'
  OBVIOUS
<1>1. Types /\ History /\ (clean /\ ~misread => NoLeak) /\ Types' /\ History'
  BY TypesKept, HistoryKept DEF Inv
<1>2. CASE Good'
  <2>1. GoodInv
    BY <1>1, <1>2, GoodBefore DEF Inv
  <2> QED BY <1>1, <1>2, <2>1, GoodKept DEF Inv
<1>3. CASE ~Good'
  <2>1. ~(clean' /\ ~misread')
    BY <1>1, <1>3 DEF Good, History
  <2> QED BY <1>1, <1>3, <2>1 DEF Inv
<1> QED BY <1>2, <1>3

(* In every state of fat.c's writes, whatever sector fails and wherever    *)
(* the power is lost, the invariant holds: while no read failed and no     *)
(* stale name was rewritten, the intact files keep their own chains and    *)
(* what fat_write_file is doing stays within clusters that are not theirs. *)
THEOREM AlwaysInv == Spec => []Inv
<1>1. Init => Inv
  BY InvInit
<1>2. Inv /\ [Next]_vars => Inv'
  BY InvKept
<1> QED BY <1>1, <1>2, PTL DEF Spec

(* While every fat_write_file succeeded, the disk is sound between calls:  *)
(* no cluster belongs to two files, each chain has the clusters that the   *)
(* file's size needs and no cluster is lost.                               *)
THEOREM DiskStaysSound == Spec => []SoundWhileNothingFailed
<1>1. Inv => SoundWhileNothingFailed
  <2> SUFFICES ASSUME Inv, pc = "idle", clean, ~misread
               PROVE  /\ \A e, f \in Files : e # f => ClustersOf(e) \cap ClustersOf(f) = {}
                      /\ \A e \in Files : Len(Chain(fat, dir[e].first)) = Needs(dir[e].size)
                      /\ {c \in Clusters : fat[c] # 0} = UNION {ClustersOf(e) : e \in Files}
    BY DEF SoundWhileNothingFailed
  <2>1. failed = {} /\ ~spoiled /\ NoLeak
    BY DEF Inv, History
  <2>2. FilesInv
    BY <2>1 DEF Inv, Good, GoodInv
  <2>3. Intact = Files /\ Held = {}
    BY <2>1 DEF Intact, Writing, Held, Files
  <2>4. \A e \in Files : Len(Chain(fat, dir[e].first)) = Needs(dir[e].size)
    BY <2>2, <2>3 DEF FilesInv, Holds
  <2>5. {c \in Clusters : fat[c] # 0} = UNION {ClustersOf(e) : e \in Files}
    BY <2>1, <2>3 DEF NoLeak, Taken
  <2> QED BY <2>2, <2>3, <2>4, <2>5 DEF FilesInv
<1> QED BY <1>1, AlwaysInv, PTL

(* fat_read_file of a file whose chain is sound returns what was written.  *)
LEMMA ReadsBack ==
    ASSUME Types, FilesInv, CacheInv, NEW i \in 1 .. Len(cache),
           NEW name, name = cache[i].name, name \notin failed \cup Writing
    PROVE  ReadFile(name, content[name].size) = Expected(name)
<1> DEFINE found == {j \in 1 .. Len(cache) : cache[j].name = name}
<1>1. PICK m \in found : m = Min(found)
  <2>1. found \subseteq Nat /\ found # {}
    OBVIOUS
  <2> HIDE DEF found
  <2> QED BY <2>1, SmallestIs
<1>2. PICK e \in Files : /\ dir[e].name = name /\ dir[e].first = cache[m].first
                         /\ dir[e].size = cache[m].size
  BY DEF CacheInv
<1>3. e \in Intact
  BY <1>2 DEF Intact
<1>0. PICK size \in Nat : size = content[name].size
  BY <1>2, <1>3, IntactFacts
<1>4. PICK ver, s : ver = content[name].ver /\ s = Chain(fat, cache[m].first)
  OBVIOUS
<1>5. /\ cache[m].size = size /\ Len(s) = Needs(size)
      /\ \A k \in 0 .. size - 1 : ByteAt(data, s, k) = <<ver, k>>
  BY <1>0, <1>2, <1>3, <1>4, IntactFacts DEF Holds
<1>6. Min({size, Len(s) * ClusterSize}) = size
  <2>1. PICK x \in Nat : x = Len(s) * ClusterSize /\ size <= x
    BY <1>5, NeedsIs, ClusterSizeIs
  <2>2. PICK y : y = Min({size, x})
    OBVIOUS
  <2>3. y \in {size, x} /\ y <= size
    BY <2>2, SmallestIs
  <2>4. y = size
    BY <2>1, <2>3
  <2> QED BY <2>1, <2>2, <2>4
<1>7. ReadFile(name, size) = [k \in 1 .. size |-> ByteAt(data, s, k - 1)]
  <2>1. found # {} /\ {size, size, Len(s) * ClusterSize} = {size, Len(s) * ClusterSize}
    OBVIOUS
  <2>2. ReadFile(name, size) =
          LET info == cache[Min(found)]
              chain == Chain(fat, info.first)
              bytes == Min({info.size, size, Len(chain) * ClusterSize})
          IN  [k \in 1 .. bytes |-> ByteAt(data, chain, k - 1)]
    BY <2>1 DEF ReadFile
  <2> HIDE DEF found
  <2> QED BY <1>1, <1>4, <1>5, <1>6, <2>1, <2>2
<1>8. ASSUME NEW k \in 1 .. size PROVE ByteAt(data, s, k - 1) = <<ver, k - 1>>
  <2>1. k - 1 \in 0 .. size - 1
    OBVIOUS
  <2> QED BY <1>5, <2>1
<1> QED BY <1>0, <1>4, <1>7, <1>8 DEF Expected

(* A fat_write_file that fails or is cut off by a power loss harms no      *)
(* other file, at no instant: fat_read_file returns what the last          *)
(* successful write of the name wrote, until a name whose write failed is  *)
(* written again after a write of another name.                            *)
THEOREM OthersStayIntact == Spec => []OthersIntact
<1>1. Inv => OthersIntact
  <2> SUFFICES ASSUME Inv PROVE OthersIntact
    OBVIOUS
  <2>1. TypeOK /\ Types
    BY DEF Inv, Types
  <2>2. ASSUME ~spoiled, ~misread, NEW i \in 1 .. Len(cache),
               cache[i].name \notin failed \cup Writing
        PROVE  ReadFile(cache[i].name, content[cache[i].name].size) = Expected(cache[i].name)
    <3>1. FilesInv /\ CacheInv
      BY <2>2 DEF Inv, Good, GoodInv
    <3> QED BY <2>1, <2>2, <3>1, ReadsBack
  <2> QED BY <2>1, <2>2 DEF OthersIntact
<1> QED BY <1>1, AlwaysInv, PTL
=============================================================================
