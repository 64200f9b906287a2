------------------------- MODULE RemoteService_proofs -------------------------
(* Requests that change settings, and the service the master sees, under a master   *)
(* that keeps the rules: the settings of RemoteIO against the invariants of          *)
(* RemoteLink_proofs and RemoteReplies_proofs.                                       *)
EXTENDS RemoteReplies_proofs

(* ------------------------------ the invariant ---------------------------------------- *)

\* No setting waits to be put into use or saved.
Clean ==
    /\ ~Settings!RateDiffers /\ _flag_write = 0
    /\ _flash_data.mode = gpioSet /\ _flash_data.baudrate = _baudrate

\* There are two rates: the USART runs at the one the modules have taken from the register,
\* which has been written exactly if a request for it has been executed.
RatesKnown ==
    /\ baudReg \in {Settings!NoBaudrate, NewRate}
    /\ _baudrate \in {Settings!NoBaudrate, NewRate}
    /\ uart = IF _baudrate = NewRate THEN NewRate ELSE Default
    /\ gpioSet \in [Pin -> {0, 1}]
    /\ (\E f \in ExecutedFrames : Effect[f] = "rate") <=> baudReg = NewRate

\* Where a pass of the modules stands: the flash is written only with the settings in use.
Passes ==
    /\ main \in {"poll", "flash", "erase", "program"}
    /\ {"mode", "baudrate"} \subseteq DOMAIN _flash_data
    /\ main \in {"poll", "flash"} => _flag_write = 0
    /\ main # "poll" => ~Settings!RateDiffers
    /\ main \in {"erase", "program"} =>
         _flash_data.mode = gpioSet /\ _flash_data.baudrate = _baudrate /\ _flag_write = 1

\* The request executed last was that of the frame begun last.
LastDone ==
    /\ last \in Frame /\ Len(executed) \in DOMAIN executed
    /\ executed[Len(executed)].pdu = FramePdu(last)
    /\ executed[Len(executed)].to = FrameAddress[last]

\* A setting waits only for the pass after the request that changed it, and that request was
\* the last one.
Dirty ==
    ~Clean => /\ LastDone /\ Effect[last] # "none"
              /\ due \/ main # "poll" \/ Composing
              /\ ~HasFrame /\ ~ToExecute

\* After a frame that is not answered the line is silent.
Rested ==
    last # 0 /\ FrameAddress[last] # "us" /\ ~Receiving =>
      quiet >= CharTicks[Default] /\ quiet >= CharTicks[NewRate]

\* The k-th reply is to a request that changed a setting.
Blamed(k) ==
    \E j \in DOMAIN executed, f \in Frame :
      Unicast(j, k) /\ FramePdu(f) = executed[j].pdu /\ Effect[f] # "none"
Marred == \A k \in marred : k = 0 \/ Blamed(k)

SettingInv == RatesKnown /\ Passes /\ Dirty /\ Rested /\ Marred

\* The rate register holds a legal rate or nothing.
LEMMA RatesApart ==
    /\ NewRate \in Standard /\ Settings!NoBaudrate \notin Standard
    /\ NewRate # Settings!NoBaudrate
    /\ Settings!RateDiffers <=> baudReg \in Standard /\ _baudrate # baudReg
BY RemoteAssumption DEF Settings!RateDiffers, Settings!is_baudrate_correct

\* A step that leaves the settings alone.
LEMMA SettingsKept ==
    ASSUME UNCHANGED settingVars
    PROVE  /\ Clean' <=> Clean
           /\ Settings!RateDiffers' <=> Settings!RateDiffers
           /\ Passes => Passes'
           /\ RatesKnown /\ UNCHANGED executed => RatesKnown'
<1> USE DEF settingVars
<1>1. Settings!RateDiffers' <=> Settings!RateDiffers
    BY Zenon DEF Settings!RateDiffers, Settings!is_baudrate_correct
<1>2. Clean' <=> Clean
    BY <1>1, Zenon DEF Clean
<1>3. Passes => Passes'
    BY <1>1, Zenon DEF Passes
<1>4. RatesKnown /\ UNCHANGED executed => RatesKnown'
    BY Zenon DEF RatesKnown, ExecutedFrames, IsExecuted
<1>5. QED BY <1>1, <1>2, <1>3, <1>4

\* A request a reply is to stays so.
LEMMA BlamedKept ==
    ASSUME Timely, LinkInv, NEW k, Blamed(k), UNCHANGED executed \/ RunHandler
    PROVE  Blamed(k)'
<1>1. CASE UNCHANGED executed
    BY <1>1, Zenon DEF Blamed, Unicast
<1>2. CASE RunHandler
  <2>1. PICK j \in DOMAIN executed, f \in Frame :
          Unicast(j, k) /\ FramePdu(f) = executed[j].pdu /\ Effect[f] # "none"
      BY DEF Blamed
  <2>2. \A i \in 1..j : executed'[i] = executed[i]
      BY <1>2, HandlerExecutes
  <2>3. j \in DOMAIN executed' /\ executed'[j] = executed[j]
      BY <1>2, HandlerExecutes
  <2>4. {i \in 1..j : executed'[i].to # "broadcast"} = {i \in 1..j : executed[i].to # "broadcast"}
      BY <2>2
  <2>5. Unicast(j, k)'
      BY <2>1, <2>3, <2>4 DEF Unicast
  <2>6. QED BY <2>1, <2>3, <2>5 DEF Blamed
<1>3. QED BY <1>1, <1>2

\* What the handler of the frame begun last writes.
LEMMA HandlerWrites ==
    ASSUME Timely, LinkInv, SettingInv, RunHandler, Writes(request'), main = "poll"
    PROVE  /\ RatesKnown' /\ Passes' /\ LastDone'
           /\ Effect[last] # "none" \/ UNCHANGED settingVars
<1>1. /\ last \in Frame /\ last' = last /\ request' = FramePdu(last)
  <2>1. last' = last
      BY DEF RunHandler, masterVars
  <2>2. QED BY <2>1, Handled
<1>2. {Effect[f] : f \in {g \in Frame : FramePdu(g) = request'}} = {Effect[last]}
    BY <1>1, PduTellsFrame
<1>3. /\ ExecutedFrames' = ExecutedFrames \cup {last}
      /\ LastDone'
  <2> DEFINE e == [pdu |-> FramePdu(last), to |-> FrameAddress[last]]
  <2>1. e.pdu = FramePdu(last) /\ e.to = FrameAddress[last]
      OBVIOUS
  <2> HIDE DEF e
  <2>2. /\ ExecutedFrames' = ExecutedFrames \cup {last}
        /\ executed'[Len(executed')] = e /\ Len(executed') \in DOMAIN executed'
      BY HandlerExecutes DEF e
  <2>3. QED BY <1>1, <2>1, <2>2 DEF LastDone
<1>4. CASE Effect[last] = "rate" /\ Settings!Request /\ baudReg' = NewRate /\ gpioSet' = gpioSet
  <2>1. UNCHANGED <<_baudrate, uart, _flash_data, _flag_write, main>>
      BY <1>4 DEF Settings!Request
  <2>2. RatesKnown'
      BY <1>1, <1>3, <1>4, <2>1, RatesApart DEF SettingInv, RatesKnown, Settings!NoBaudrate
  <2>3. Passes'
      BY <2>1 DEF SettingInv, Passes
  <2>4. QED BY <1>3, <1>4, <2>2, <2>3
<1>5. CASE Effect[last] = "mode" /\ Settings!Request /\ baudReg' = baudReg
  <2>1. UNCHANGED <<_baudrate, uart, _flash_data, _flag_write, main>>
      BY <1>5 DEF Settings!Request
  <2>2. gpioSet' \in [Pin -> {0, 1}]
      BY <1>5, DirectionsWritten DEF SettingInv, RatesKnown
  <2>3. (\E f \in ExecutedFrames' : Effect[f] = "rate") <=> \E f \in ExecutedFrames : Effect[f] = "rate"
      BY <1>3, <1>5
  <2>4. RatesKnown'
      BY <1>5, <2>1, <2>2, <2>3 DEF SettingInv, RatesKnown, Settings!NoBaudrate
  <2>5. Passes'
      BY <2>1 DEF SettingInv, Passes
  <2>6. QED BY <1>3, <1>5, <2>4, <2>5
<1>6. CASE Effect[last] = "none" /\ UNCHANGED settingVars
  <2>1. (\E f \in ExecutedFrames' : Effect[f] = "rate") <=> \E f \in ExecutedFrames : Effect[f] = "rate"
      BY <1>3, <1>6
  <2>2. RatesKnown'
      BY <1>6, <2>1 DEF SettingInv, RatesKnown, settingVars, Settings!NoBaudrate
  <2>3. QED BY <1>3, <1>6, <2>2, SettingsKept DEF SettingInv
<1>7. Effect[last] \in {"none", "mode", "rate"}
    BY <1>1, RemoteAssumption
<1>8. QED BY <1>2, <1>4, <1>5, <1>6, <1>7 DEF Writes

(* ------------------------------ the modules -------------------------------------------- *)

\* A setting that waits while the modules run makes the reply on its way, if any, one to the
\* request that changed it.
LEMMA BlameFound ==
    ASSUME Timely, LinkInv, Answering, SettingInv, ~Clean, due \/ main # "poll", Replying
    PROVE  Len(replies) = 0 \/ Blamed(Len(replies))
<1> USE DEF LinkInv, JobInv
<1>1. poll = "get" /\ ~Composing /\ ~Receiving
    BY DEF OneJob, Composing
<1>2. LastDone /\ Effect[last] # "none"
    BY DEF SettingInv, Dirty
<1>3. Cardinality(UnicastsTo(Len(executed))) = Len(replies)
  <2>1. Len(replies) \in Nat
      BY DEF Answering, Counted
  <2>2. QED BY <1>1, <2>1 DEF Answering, Counted
<1>4. executed[Len(executed)].to # "broadcast"
  <2>1. CASE txie = 1
      BY <2>1 DEF Answering, AnswersLast, ToAnswer
  <2>2. CASE txie # 1
    <3>1. eSndState # "TX_XMIT"
        BY <2>2 DEF HalfDuplex
    <3>2. quiet < CharTicks[uart] /\ uart \in {Default, NewRate}
        BY <3>1 DEF Replying, SettingInv, RatesKnown
    <3>3. quiet \in Nat /\ \A r \in {Default, NewRate} : CharTicks[r] \in Nat
        BY Rates DEF Timing
    <3>4. ~(quiet >= CharTicks[Default] /\ quiet >= CharTicks[NewRate])
        BY <3>2, <3>3
    <3>5. last # 0
        BY <1>2, FrameAssumption DEF LastDone
    <3>6. FrameAddress[last] = "us"
        BY <1>1, <3>4, <3>5 DEF SettingInv, Rested
    <3>7. QED BY <1>2, <3>6 DEF LastDone
  <2>3. QED BY <2>1, <2>2
<1>5. PICK j \in DOMAIN executed : j = Len(executed)
    BY <1>2 DEF LastDone
<1>6. Unicast(j, Len(replies))
    BY <1>3, <1>4, <1>5 DEF Unicast, UnicastsTo
<1>7. last \in Frame /\ FramePdu(last) = executed[j].pdu
    BY <1>2, <1>5 DEF LastDone
<1>8. QED BY <1>2, <1>6, <1>7 DEF Blamed

\* UsartModule::run puts the rate of the register into use.
LEMMA UsartPassStep ==
    ASSUME SettingInv, UsartPass, UNCHANGED linkVars
    PROVE  /\ RatesKnown' /\ Passes' /\ main' = "flash" /\ ~due'
           /\ Clean => Clean'
           /\ Settings!RateDiffers => ~Clean
<1> USE DEF SettingInv
<1>1. /\ main = "poll" /\ main' = "flash" /\ due' = FALSE
      /\ IF Settings!RateDiffers THEN _baudrate' = baudReg /\ uart' = baudReg
                                 ELSE UNCHANGED <<_baudrate, uart>>
      /\ UNCHANGED <<gpioSet, baudReg, _flash_data, _flag_write>>
    BY DEF UsartPass, Settings!_baudrate_set, Settings!usart_set_baudrate
<1>2. UNCHANGED ExecutedFrames
    BY DEF linkVars, history, ExecutedFrames, IsExecuted
<1>3. Settings!RateDiffers => baudReg = NewRate
    BY RatesApart DEF RatesKnown
<1>4. RatesKnown'
  <2>1. baudReg' \in {Settings!NoBaudrate, NewRate} /\ _baudrate' \in {Settings!NoBaudrate, NewRate}
        /\ uart' = IF _baudrate' = NewRate THEN NewRate ELSE Default
      BY <1>1, <1>3 DEF RatesKnown
  <2>2. gpioSet' \in [Pin -> {0, 1}]
        /\ ((\E f \in ExecutedFrames' : Effect[f] = "rate") <=> baudReg' = NewRate)
      BY <1>1, <1>2 DEF RatesKnown
  <2>3. QED BY <2>1, <2>2 DEF RatesKnown, Settings!NoBaudrate
<1>5. ~Settings!RateDiffers'
    BY <1>1 DEF Settings!RateDiffers, Settings!is_baudrate_correct
<1>6. Passes'
    BY <1>1, <1>5 DEF Passes
<1>7. Clean => Clean'
    BY <1>1, <1>5 DEF Clean
<1>8. QED BY <1>1, <1>4, <1>6, <1>7 DEF Clean

\* FlashModule::run takes over the settings in use, and writes them if they are new.
LEMMA FlashPassStep ==
    ASSUME SettingInv, FlashPass, UNCHANGED linkVars
    PROVE  /\ RatesKnown' /\ Passes' /\ due' = due /\ main # "poll"
           /\ Clean => Clean'
           /\ ~Clean' => main' # "poll"
           /\ Stalled => ~Clean
<1> USE DEF SettingInv
<1>1. UNCHANGED <<baudReg, _baudrate, uart, gpioSet, due, executed>>
    BY DEF FlashPass, Settings!_polling_flash_data, Settings!ErasePage, Settings!ProgramHalfWord,
           linkVars, history
<1>2. RatesKnown'
    BY <1>1, Zenon DEF RatesKnown, ExecutedFrames, IsExecuted
<1>3. Settings!RateDiffers' <=> Settings!RateDiffers
    BY <1>1 DEF Settings!RateDiffers, Settings!is_baudrate_correct
<1>4. CASE Settings!_polling_flash_data
  <2>1. main = "flash" /\ _flag_write = 0 /\ ~Settings!RateDiffers
      BY <1>4 DEF Settings!_polling_flash_data, Passes
  <2>2. /\ _flash_data'.baudrate = _baudrate
        /\ _flash_data'.mode = [i \in Pin |-> IF _flash_data.mode[i] # gpioSet[i]
                                              THEN Settings!ModeOf(gpioSet[i])
                                              ELSE _flash_data.mode[i]]
        /\ {"mode", "baudrate"} \subseteq DOMAIN _flash_data'
        /\ \/ main' = "erase" /\ _flag_write' = 1
              /\ \/ \E i \in Pin : _flash_data.mode[i] # gpioSet[i]
                 \/ _flash_data.baudrate # _baudrate
           \/ main' = "poll" /\ _flag_write' = 0
      BY <1>4, <2>1 DEF Settings!_polling_flash_data, Settings!MustWrite
  <2>3. _flash_data'.mode = gpioSet
    <3>1. \A i \in Pin : Settings!ModeOf(gpioSet[i]) = gpioSet[i]
        BY DEF Settings!ModeOf, RatesKnown
    <3>2. gpioSet = [i \in Pin |-> gpioSet[i]]
        BY DEF RatesKnown
    <3>3. QED BY <2>2, <3>1, <3>2
  <2>4. Passes'
      BY <1>1, <1>3, <2>1, <2>2, <2>3 DEF Passes
  <2>5. Clean => Clean'
      BY <1>1, <1>3, <2>1, <2>2, <2>3 DEF Clean
  <2>6. ~Clean' => main' # "poll"
      BY <1>1, <1>3, <2>1, <2>2, <2>3 DEF Clean
  <2>7. QED BY <1>1, <1>2, <2>1, <2>4, <2>5, <2>6 DEF Stalled
<1>5. CASE Settings!ErasePage
  <2>1. main = "erase" /\ main' = "program" /\ UNCHANGED <<_flash_data, _flag_write>>
      BY <1>5 DEF Settings!ErasePage, Settings!WriteFails
  <2>2. ~Clean /\ Passes'
      BY <1>1, <1>3, <2>1 DEF Clean, Passes
  <2>3. QED BY <1>1, <1>2, <2>1, <2>2
<1>6. CASE Settings!ProgramHalfWord
  <2>1. /\ main = "program"
        /\ \/ /\ main' = "poll" /\ _flag_write' = 0
              /\ _flash_data' = [_flash_data EXCEPT !.gpioFlag = 0, !.baudFlag = 0]
           \/ main' = "program" /\ UNCHANGED <<_flash_data, _flag_write>>
      BY <1>6 DEF Settings!ProgramHalfWord, Settings!WriteFails
  <2>2. {"mode", "baudrate"} \subseteq DOMAIN _flash_data /\ _flash_data.mode = gpioSet
        /\ _flash_data.baudrate = _baudrate /\ _flag_write = 1 /\ ~Settings!RateDiffers
      BY <2>1 DEF Passes
  <2>3. CASE main' = "poll"
    <3>1. /\ _flash_data'.mode = gpioSet /\ _flash_data'.baudrate = _baudrate
          /\ {"mode", "baudrate"} \subseteq DOMAIN _flash_data'
        BY <2>1, <2>2, <2>3
    <3>2. Clean' /\ Passes'
        BY <1>1, <1>3, <2>1, <2>2, <2>3, <3>1 DEF Clean, Passes
    <3>3. QED BY <1>1, <1>2, <2>1, <3>2 DEF Stalled
  <2>4. CASE main' = "program"
    <3>1. UNCHANGED <<_flash_data, _flag_write>>
        BY <2>1, <2>4
    <3>2. ~Clean /\ Passes'
        BY <1>1, <1>3, <2>2, <2>4, <3>1 DEF Clean, Passes
    <3>3. QED BY <1>1, <1>2, <2>1, <2>4, <3>2
  <2>5. QED BY <2>1, <2>3, <2>4
<1>7. QED BY <1>4, <1>5, <1>6 DEF FlashPass

\* What the modules do is the work of the request executed last.
LEMMA ModulesKeepSettings ==
    ASSUME Timely, LinkInv, Answering, SettingInv, ModulesStep
    PROVE  SettingInv'
<1>1. UNCHANGED <<linkVars, executed, replies, last, poll, quiet, xEventInQueue, eQueuedEvent>>
    BY DEF ModulesStep, linkVars, history, masterVars, vars, mainVars, timeVars, queueVars
<1>2. due \/ main # "poll"
    BY DEF ModulesStep, UsartPass, FlashPass, Settings!_polling_flash_data, Settings!ErasePage,
           Settings!ProgramHalfWord
<1>3. /\ RatesKnown' /\ Passes'
      /\ Clean => Clean'
      /\ ~Clean' => due' \/ main' # "poll"
      /\ \/ marred' = marred
         \/ ~Clean /\ Replying /\ marred' = marred \cup {Len(replies)}
  <2>1. CASE UsartPass
    <3>1. \/ marred' = marred
          \/ Settings!RateDiffers /\ Replying /\ marred' = marred \cup {Len(replies)}
        BY <2>1 DEF UsartPass, Disturbs
    <3>2. QED BY <1>1, <2>1, <3>1, UsartPassStep
  <2>2. CASE FlashPass
    <3>1. \/ marred' = marred
          \/ Stalled /\ Replying /\ marred' = marred \cup {Len(replies)}
        BY <2>2 DEF FlashPass, Disturbs
    <3>2. QED BY <1>1, <2>2, <3>1, FlashPassStep
  <2>3. QED BY <2>1, <2>2 DEF ModulesStep
<1>4. Dirty'
  <2> SUFFICES ASSUME ~Clean'
               PROVE  /\ LastDone' /\ Effect[last'] # "none"
                      /\ (due' \/ main' # "poll" \/ Composing')
                      /\ ~HasFrame' /\ ~ToExecute'
      BY DEF Dirty
  <2>1. LastDone /\ Effect[last] # "none" /\ ~HasFrame /\ ~ToExecute
      BY <1>3 DEF SettingInv, Dirty
  <2>2. LastDone' /\ Effect[last'] # "none"
      BY <1>1, <2>1, Zenon DEF LastDone
  <2>3. ~HasFrame' /\ ~ToExecute'
      BY <1>1, <2>1 DEF HasFrame, FrameEvent, ToExecute, Receiving, HasByte, linkVars, vars, rcvVars,
                        isrVars, usartVars
  <2>4. QED BY <1>3, <2>2, <2>3
<1>5. Rested'
  <2>1. Receiving' = Receiving
      BY <1>1, Zenon DEF Receiving, HasByte, linkVars, vars, rcvVars, isrVars, usartVars
  <2>2. QED BY <1>1, <2>1 DEF SettingInv, Rested
<1>6. Marred'
  <2>1. \A k : Blamed(k)' <=> Blamed(k)
      BY <1>1, Zenon DEF Blamed, Unicast
  <2>2. \A k \in marred' : k \in marred \/ (k = Len(replies) /\ ~Clean /\ Replying)
      BY <1>3
  <2>3. QED BY <1>2, <2>1, <2>2, BlameFound DEF SettingInv, Marred
<1>7. QED BY <1>3, <1>4, <1>5, <1>6 DEF SettingInv

(* ------------------------------ the line and eMBPoll ------------------------------------- *)

\* The master goes on with a frame only while it is being received.
LEMMA ContinuedIsReceived ==
    ASSUME Timely, LinkInv, NEW clear, ContinueFrame(CharTicks[MasterRate], clear)
    PROVE  Receiving
<1>1. current # 0 /\ quiet \in CharTicks[MasterRate]..(CharTicks[MasterRate] + MaxGap - 1)
    BY DEF ContinueFrame
<1>2. quiet \in Nat /\ CharTicks[MasterRate] \in Nat /\ MaxGap \in Nat
    BY Rates DEF LinkInv, JobInv, Timing
<1>3. ~(quiet >= CharTicks[MasterRate] + MaxGap)
    BY <1>1, <1>2
<1>4. QED BY <1>1, <1>3 DEF LinkInv, JobInv, Timing

\* Who is being answered is known from the frame begun last.
LEMMA AnsweredIsOurs ==
    ASSUME Timely, LinkInv, Answering, txie = 1
    PROVE  FrameAddress[last] = "us"
<1>1. /\ last \in Frame /\ Len(executed) > 0
      /\ executed[Len(executed)].pdu = FramePdu(last)
      /\ executed[Len(executed)].to # "broadcast"
    BY DEF Answering, AnswersLast, ToAnswer
<1>2. Len(executed) \in DOMAIN executed
    BY <1>1, LenProperties DEF LinkInv, JobInv, Executions
<1>3. PICK g \in delivered : /\ FrameAddress[g] = executed[Len(executed)].to
                             /\ executed[Len(executed)].to \in {"us", "broadcast"}
                             /\ executed[Len(executed)].pdu = FramePdu(g)
    BY <1>2 DEF LinkInv, JobInv, Executions, ExecutesOnlyOurFrames
<1>4. g \in Frame
    BY DEF LinkInv, JobInv, Line
<1>5. QED BY <1>1, <1>3, <1>4, PduTellsFrame

\* The line stays silent after a frame that is not answered.
LEMMA RestedKept ==
    ASSUME Rested, last' = last, Receiving => Receiving', quiet' \in {quiet, quiet + 1},
           quiet \in Nat, CharTicks[Default] \in Nat, CharTicks[NewRate] \in Nat
    PROVE  Rested'
BY DEF Rested

LEMMA RestedStep ==
    ASSUME Timely, LinkInv, Answering, Rested, MasterStep \/ Interrupt \/ StallTick \/ UNCHANGED remoteVars
    PROVE  Rested'
<1> USE DEF LinkInv, JobInv
<1>1. quiet \in Nat /\ CharTicks[Default] \in Nat /\ CharTicks[NewRate] \in Nat
    BY Rates DEF Timing
<1>2. CASE MasterStep
  <2>1. CASE BreakFrame
    <3>1. last' = last /\ quiet' = quiet /\ Receiving' = Receiving
        BY <2>1, Zenon DEF BreakFrame, timeVars, vars, rcvVars, isrVars, usartVars, Receiving, HasByte
    <3>2. QED BY <1>1, <3>1, RestedKept
  <2>2. CASE \/ \E f \in Frame : BeginFrame(f, uart = MasterRate)
             \/ ContinueFrame(CharTicks[MasterRate], uart = MasterRate)
    <3>1. PICK b : UartReceive(b)
        BY <2>2 DEF BeginFrame, ContinueFrame, PutByte
    <3>2. rdr' # <<>>
        BY <3>1 DEF UartReceive
    <3>3. QED BY <3>2 DEF Rested, Receiving, HasByte
  <2>3. QED BY <1>2, <2>1, <2>2 DEF MasterStep, Master
<1>3. CASE (Interrupt /\ Tick) \/ StallTick \/ UNCHANGED remoteVars
  <2>1. last' = last /\ quiet' \in {quiet, quiet + 1} /\ Receiving' = Receiving
    <3>1. last' = last /\ UNCHANGED <<rcvVars, rdr, isrVars>>
        BY <1>3 DEF Tick, Tim2Update, StallTick, remoteVars, linkVars, vars, usartVars, masterVars
    <3>2. quiet' \in {quiet, quiet + 1}
        BY <1>3 DEF Tick, StallTick, remoteVars, linkVars, timeVars
    <3>3. Receiving' = Receiving
        BY <3>1, Zenon DEF Receiving, HasByte, rcvVars, isrVars
    <3>4. QED BY <3>1, <3>2, <3>3
  <2>2. QED BY <1>1, <2>1, RestedKept
<1>4. CASE Tim2
  <2>1. UNCHANGED <<last, quiet, isr, rdr>> /\ Tim2Isr
      BY <1>4 DEF Tim2, Tim2Isr, T35Expired, Fail, masterVars, timeVars, isrVars, usartVars
  <2>2. CASE eRcvState' = eRcvState
    <3>1. Receiving' = Receiving
        BY <2>1, <2>2, Zenon DEF Receiving, HasByte
    <3>2. QED BY <1>1, <2>1, <3>1, RestedKept
  <2>3. CASE eRcvState' # eRcvState
    <3>1. (downcounter - 1) % 65536 = 0
        BY <2>1, <2>3 DEF Tim2Isr, rcvVars
    <3>2. CASE eRcvState = "RX_RCV"
      <4>1. \A r \in {Default, NewRate} : quiet >= CharTicks[r] + MaxGap
          BY <2>1, <3>1, <3>2, Expiry
      <4>2. quiet >= CharTicks[Default] /\ quiet >= CharTicks[NewRate]
          BY <1>1, <4>1, Rates
      <4>3. QED BY <2>1, <4>2 DEF Rested
    <3>3. CASE eRcvState # "RX_RCV"
      <4>1. Receiving => Receiving'
          BY <2>1, <3>3 DEF Receiving, HasByte
      <4>2. QED BY <1>1, <2>1, <4>1, RestedKept
    <3>4. QED BY <3>2, <3>3
  <2>4. QED BY <2>2, <2>3
<1>5. CASE ReceiveIsr
  <2>1. HasByte
      BY <1>5 DEF ReceiveIsr, ReceiveByte, StoreByte, RestartTimer, HasByte
  <2>2. Receiving'
      BY <1>5, <2>1, ByteInHand DEF ReceiveIsr, ReceiveByte, StoreByte, RestartTimer, Receiving, HasByte,
                                    Receiver, rcvVars
  <2>3. QED BY <2>2 DEF Rested
<1>6. CASE Transmit
  <2>1. txie = 1 /\ last' = last
      BY <1>6 DEF Transmit, TransmitByte, masterVars
  <2>2. QED BY <2>1, AnsweredIsOurs DEF Rested
<1>7. QED BY <1>2, <1>3, <1>4, <1>5, <1>6 DEF Interrupt

\* The master and the interrupts come to a setting that waits only while it is worked on.
LEMMA LineKeepsSettings ==
    ASSUME Timely, LinkInv, Answering, SettingInv,
           MasterStep \/ Interrupt \/ StallTick \/ UNCHANGED remoteVars
    PROVE  SettingInv'
<1> USE DEF LinkInv, JobInv
<1>1. UNCHANGED <<settingVars, due, marred, executed, poll>>
  <2>1. CASE MasterStep
      BY <2>1 DEF MasterStep, Master, BeginFrame, ContinueFrame, BreakFrame, PutByte, UartReceive,
                  history, mainVars, vars
  <2>2. CASE Interrupt
    <3>1. UNCHANGED <<settingVars, due, marred>>
        BY <2>2 DEF Interrupt
    <3>2. CASE Tick \/ Tim2
        BY <3>1, <3>2 DEF Tick, Tim2Update, Tim2, Tim2Isr, T35Expired, Fail, history, mainVars
    <3>3. CASE ReceiveIsr \/ Transmit
        BY <3>1, <3>3 DEF ReceiveIsr, ReceiveByte, StoreByte, RestartTimer, Transmit, TransmitByte,
                          Fail, history, mainVars
    <3>4. QED BY <2>2, <3>2, <3>3 DEF Interrupt
  <2>3. CASE StallTick \/ UNCHANGED remoteVars
      BY <2>3 DEF StallTick, remoteVars, linkVars, vars, history, mainVars
  <2>4. QED BY <2>1, <2>2, <2>3
<1>2. RatesKnown' /\ Passes' /\ (Clean' <=> Clean)
    BY <1>1, SettingsKept DEF SettingInv
<1>3. Marred'
  <2>1. \A k : Blamed(k)' <=> Blamed(k)
      BY <1>1, Zenon DEF Blamed, Unicast
  <2>2. QED BY <1>1, <2>1 DEF SettingInv, Marred
<1>4. Rested'
    BY RestedStep DEF SettingInv
<1>5. Dirty'
  <2> SUFFICES ASSUME ~Clean
               PROVE  /\ LastDone' /\ Effect[last'] # "none"
                      /\ (due' \/ main' # "poll" \/ Composing')
                      /\ ~HasFrame' /\ ~ToExecute'
      BY <1>2 DEF Dirty
  <2>1. /\ LastDone /\ Effect[last] # "none" /\ (due \/ main # "poll" \/ Composing)
        /\ ~HasFrame /\ ~Receiving /\ ~HasByte /\ ~FrameEvent /\ ~ToExecute
      BY DEF SettingInv, Dirty, HasFrame, Receiving
  <2>2. due' \/ main' # "poll" \/ Composing'
      BY <1>1, <2>1 DEF Composing, settingVars
  <2>3. ASSUME last' = last PROVE LastDone' /\ Effect[last'] # "none"
      BY <1>1, <2>1, <2>3, Zenon DEF LastDone
  <2>4. CASE MasterStep
    <3>1. ~\E f \in Frame : BeginFrame(f, uart = MasterRate)
      <4>1. SUFFICES ASSUME NEW f \in Frame, BeginFrame(f, uart = MasterRate) PROVE FALSE
          OBVIOUS
      <4>2. current = 0 /\ poll = "get"
          BY <4>1 DEF BeginFrame, Waits, Timely, SlaveIdle
      <4>3. QED BY <2>1, <2>4, <4>2 DEF MasterStep, Composing, Timely
    <3>2. BreakFrame
        BY <2>1, <2>4, <3>1, ContinuedIsReceived DEF MasterStep, Master
    <3>3. last' = last /\ UNCHANGED vars
        BY <3>2 DEF BreakFrame
    <3>4. ~HasFrame' /\ ~ToExecute'
        BY <2>1, <3>3, Zenon DEF HasFrame, Receiving, HasByte, FrameEvent, ToExecute, vars, rcvVars,
                                 isrVars, usartVars, queueVars, mainVars
    <3>5. QED BY <2>2, <2>3, <3>3, <3>4
  <2>5. CASE Tick \/ StallTick \/ UNCHANGED remoteVars
    <3>1. last' = last /\ UNCHANGED <<rcvVars, rdr, isrVars, queueVars>>
        BY <2>5 DEF Tick, Tim2Update, StallTick, remoteVars, linkVars, vars, usartVars, masterVars
    <3>2. ~HasFrame' /\ ~ToExecute'
        BY <1>1, <2>1, <3>1, Zenon DEF HasFrame, Receiving, HasByte, FrameEvent, ToExecute, rcvVars,
                                 isrVars, queueVars
    <3>3. QED BY <2>2, <2>3, <3>1, <3>2
  <2>6. CASE Tim2
    <3>1. /\ UNCHANGED <<last, isr, rdr>> /\ eRcvState' \in {eRcvState, "RX_IDLE"}
          /\ UNCHANGED queueVars \/ eQueuedEvent' = "EV_READY"
        BY <2>1, <2>6 DEF Tim2, Tim2Isr, T35Expired, Fail, masterVars, isrVars, usartVars, rcvVars,
                          xMBPortEventPost, Receiving
    <3>2. ~Receiving'
        BY <2>1, <3>1 DEF Receiving, HasByte
    <3>3. ~FrameEvent' /\ ~ToExecute'
        BY <1>1, <2>1, <3>1 DEF FrameEvent, ToExecute, queueVars
    <3>4. QED BY <2>2, <2>3, <3>1, <3>2, <3>3 DEF HasFrame
  <2>7. ~ReceiveIsr
      BY <2>1 DEF ReceiveIsr, ReceiveByte, StoreByte, RestartTimer, HasByte
  <2>8. CASE Transmit
    <3>1. /\ UNCHANGED <<last, isr, rdr, eRcvState>>
          /\ UNCHANGED queueVars \/ eQueuedEvent' = "EV_FRAME_SENT"
        BY <2>8 DEF Transmit, TransmitByte, Fail, masterVars, isrVars, rcvVars, usartVars,
                    xMBPortEventPost
    <3>2. ~Receiving'
        BY <2>1, <3>1 DEF Receiving, HasByte
    <3>3. ~FrameEvent' /\ ~ToExecute'
        BY <1>1, <2>1, <3>1 DEF FrameEvent, ToExecute, queueVars
    <3>4. QED BY <2>2, <2>3, <3>1, <3>2, <3>3 DEF HasFrame
  <2>9. QED BY <2>4, <2>5, <2>6, <2>7, <2>8 DEF Interrupt
<1>6. QED BY <1>2, <1>3, <1>4, <1>5 DEF SettingInv

\* While eMBPoll is at work no frame is received.
LEMMA PollIsDeaf ==
    ASSUME LinkInv, StackStep
    PROVE  /\ main = "poll" /\ ~due /\ EventPending
           /\ UNCHANGED <<last, quiet, marred>>
           /\ ~Receiving /\ ~Receiving'
<1>1. main = "poll" /\ ~due /\ marred' = marred
    BY DEF StackStep
<1>2. EventPending
    BY DEF StackStep, RunHandler, OtherPoll, SendReply, GetEvent, ClearQueue, Receive, PostExecute,
           Execute, BuildReply, Send, EventPending
<1>3. UNCHANGED <<last, quiet>>
    BY DEF StackStep, RunHandler, OtherPoll, SendReply, masterVars, timeVars
<1>4. UNCHANGED <<eRcvState, rdr, isr>>
    BY DEF StackStep, RunHandler, OtherPoll, SendReply, GetEvent, ClearQueue, Receive, PostExecute,
           Execute, BuildReply, Send, Fail, rcvVars, usartVars, isrVars
<1>5. Receiving' = Receiving
    BY <1>4, Zenon DEF Receiving, HasByte
<1>6. QED BY <1>1, <1>2, <1>3, <1>5, AtWork

\* The handler changes a setting only when none waits, and the pass after it comes to it.
LEMMA StackKeepsSettings ==
    ASSUME Timely, LinkInv, Answering, SettingInv, StackStep
    PROVE  SettingInv'
<1>1. /\ main = "poll" /\ ~due /\ EventPending
      /\ UNCHANGED <<last, quiet, marred>>
      /\ ~Receiving /\ ~Receiving'
    BY PollIsDeaf
<1>2. Rested'
  <2>1. quiet \in Nat /\ CharTicks[Default] \in Nat /\ CharTicks[NewRate] \in Nat
      BY Rates DEF LinkInv, JobInv, Timing
  <2>2. QED BY <1>1, <2>1, RestedKept DEF SettingInv
<1>3. CASE RunHandler /\ Writes(request')
  <2>1. /\ RatesKnown' /\ Passes' /\ LastDone'
        /\ Effect[last] # "none" \/ UNCHANGED settingVars
      BY <1>1, <1>3, HandlerWrites
  <2>2. poll = "execute" /\ poll' = "reply" /\ xEventInQueue = 0 /\ xEventInQueue' = 0
    <3>1. poll = "execute" /\ poll' = "reply" /\ xEventInQueue' = xEventInQueue
        BY <1>3 DEF RunHandler, Execute, queueVars
    <3>2. QED BY <3>1 DEF LinkInv, JobInv, OneJob
  <2>3. Clean
      BY <2>2 DEF SettingInv, Dirty, ToExecute
  <2>4. Dirty'
    <3>1. Composing' /\ ~HasFrame' /\ ~ToExecute'
        BY <1>1, <2>2 DEF Composing, HasFrame, FrameEvent, ToExecute
    <3>2. CASE UNCHANGED settingVars
        BY <2>3, <3>2, SettingsKept DEF Dirty
    <3>3. CASE Effect[last] # "none"
        BY <1>1, <2>1, <3>1, <3>3 DEF Dirty
    <3>4. QED BY <2>1, <3>2, <3>3
  <2>5. Marred'
    <3> SUFFICES ASSUME NEW k \in marred', k # 0 PROVE Blamed(k)'
        BY DEF Marred
    <3>1. k \in marred /\ Blamed(k)
        BY <1>1 DEF SettingInv, Marred
    <3>2. QED BY <1>3, <3>1, BlamedKept
  <2>6. QED BY <1>2, <2>1, <2>4, <2>5 DEF SettingInv
<1>4. CASE (OtherPoll \/ SendReply) /\ UNCHANGED settingVars
  <2>1. executed' = executed
      BY <1>4 DEF OtherPoll, SendReply, history
  <2>2. RatesKnown' /\ Passes' /\ (Clean' <=> Clean)
      BY <1>4, <2>1, SettingsKept DEF SettingInv
  <2>3. Marred'
    <3>1. \A k : Blamed(k)' <=> Blamed(k)
        BY <2>1, Zenon DEF Blamed, Unicast
    <3>2. QED BY <1>1, <3>1 DEF SettingInv, Marred
  <2>4. Dirty'
    <3> SUFFICES ASSUME ~Clean
                 PROVE  /\ LastDone' /\ Effect[last'] # "none"
                        /\ (due' \/ main' # "poll" \/ Composing')
                        /\ ~HasFrame' /\ ~ToExecute'
        BY <2>2 DEF Dirty
    <3>1. LastDone /\ Effect[last] # "none" /\ Composing
        BY <1>1 DEF SettingInv, Dirty
    <3>2. LastDone' /\ Effect[last'] # "none"
        BY <1>1, <2>1, <3>1, Zenon DEF LastDone
    <3>3. /\ BuildReply \/ Send
          /\ xEventInQueue = 0
        BY <1>4, <3>1 DEF Composing, OtherPoll, SendReply, GetEvent, ClearQueue, Receive,
                          PostExecute, LinkInv, JobInv, OneJob
    <3>4. poll' \in {"send", "get"} /\ xEventInQueue' = 0
        BY <3>3 DEF BuildReply, Send, queueVars
    <3>5. ~HasFrame' /\ ~ToExecute'
        BY <1>1, <3>4 DEF HasFrame, FrameEvent, ToExecute
    <3>6. due' \/ main' # "poll" \/ Composing'
      <4>1. CASE poll' = "send"
          BY <4>1 DEF Composing
      <4>2. CASE poll' = "get"
        <5>1. PassDue' => due'
            BY <4>2, Zenon DEF StackStep
        <5>2. ~Clean' => PassDue' \/ main' # "poll"
            BY DEF Clean, PassDue, Settings!Settled
        <5>3. ~Clean' /\ main' = "poll"
            BY <1>1, <1>4, <2>2 DEF settingVars
        <5>4. QED BY <5>1, <5>2, <5>3
      <4>3. QED BY <3>4, <4>1, <4>2
    <3>7. QED BY <3>2, <3>5, <3>6
  <2>5. QED BY <1>2, <2>2, <2>3, <2>4 DEF SettingInv
<1>5. QED BY <1>3, <1>4 DEF StackStep

\* At first nothing has been executed, and the settings are those of an empty flash.
LEMMA SettingInit ==
    ASSUME RemoteInit
    PROVE  SettingInv
<1>1. /\ executed = <<>> /\ last = 0 /\ marred = {} /\ main = "poll"
      /\ baudReg = Settings!NoBaudrate /\ _baudrate = Settings!NoBaudrate /\ uart = Default
      /\ gpioSet = [i \in Pin |-> 0] /\ _flag_write = 0
      /\ _flash_data = Settings!EmptyData
    BY DEF RemoteInit, LinkInit, Settings!Init
<1>2. RatesKnown
  <2>1. ExecutedFrames = {}
      BY <1>1 DEF ExecutedFrames, IsExecuted
  <2>2. gpioSet \in [Pin -> {0, 1}]
      BY <1>1
  <2>3. QED BY <1>1, <2>1, <2>2, RatesApart DEF RatesKnown
<1>3. Clean /\ Passes
  <2>1. ~Settings!RateDiffers
      BY <1>1, RatesApart
  <2>2. /\ _flash_data.mode = gpioSet /\ _flash_data.baudrate = _baudrate
        /\ {"mode", "baudrate"} \subseteq DOMAIN _flash_data
      BY <1>1 DEF Settings!EmptyData, Settings!NoBaudrate
  <2>3. QED BY <1>1, <2>1, <2>2 DEF Clean, Passes
<1>4. QED BY <1>1, <1>2, <1>3 DEF SettingInv, Dirty, Rested, Marred

LEMMA SettingInvariant == Timely /\ RemoteSpec => [](LinkInv /\ Answering /\ SettingInv)
<1> SUFFICES ASSUME Timely PROVE RemoteSpec => [](LinkInv /\ Answering /\ SettingInv)
    OBVIOUS
<1>1. RemoteInit => SettingInv
    BY SettingInit
<1>2. LinkInv /\ Answering /\ SettingInv /\ [RestingNext]_remoteVars => SettingInv'
    BY LineKeepsSettings, StackKeepsSettings, ModulesKeepSettings DEF RestingNext
<1>3. QED BY <1>1, <1>2, AnsweringInvariant, NoIdlePoll, PTL DEF RemoteSpec

\* A reply is disturbed, by the change of the rate or by the erasing of a page, only if its
\* own request changed a setting: the pass of the modules that follows a request is the only
\* one that finds its setting, so none is left for the time of a later reply
\* (usart_module.cpp:32-48, flash_module.cpp:29-71).
THEOREM RemoteRepliesIntact == Timely /\ RemoteSpec => []RepliesIntact
<1> SUFFICES ASSUME Timely PROVE RemoteSpec => []RepliesIntact
    OBVIOUS
<1>1. Answering /\ SettingInv => RepliesIntact
  <2> SUFFICES ASSUME Answering, SettingInv, NEW k \in marred \cap DOMAIN replies
               PROVE  Blamed(k)
      BY DEF RepliesIntact, Blamed
  <2>1. k # 0
      BY LenProperties DEF Answering, Counted
  <2>2. QED BY <2>1 DEF SettingInv, Marred
<1>2. QED BY <1>1, SettingInvariant, PTL

(* ------------------------------ what is received --------------------------------------- *)

\* No byte received was disturbed.
Undisturbed ==
    HasFrame =>
      /\ \A i \in 0..(Stored - 1) : ucRTUBuf[i] # ZeroByte
      /\ rdr # <<>> => rdr[1] # ZeroByte
      /\ isr = "store" => ucByte # ZeroByte

\* A request that has been delivered and not yet executed is that of the last frame, and is
\* not lost.
Owing == \A f \in Frame : Outstanding(f) => f = last /\ (HasFrame \/ ToExecute)

\* During a frame the USART runs at the rate of the master; rates are never taken back.
InTune ==
    /\ current # 0 => uart = MasterRate
    /\ _baudrate = NewRate => baudReg = NewRate

HearInv == Undisturbed /\ Owing /\ InTune

\* No byte of a frame reads like a disturbed one.
LEMMA BytesAreNotZero ==
    ASSUME Timely, NEW f \in Frame, NEW i \in 1..FrameLength[f]
    PROVE  FrameBytes(f)[i] # ZeroByte
<1> DEFINE n == FrameLength[f]
           c == Crc(Data(f))
<1>1. n \in Nat /\ n >= 4 /\ f # 0
    BY Lengths
<1>2. CASE i \in 1..(n - 2)
  <2>1. FrameBytes(f)[i] = [frame |-> f, at |-> i]
      BY <1>2, FrameByte
  <2>2. QED BY <1>1, <2>1 DEF ZeroByte
<1>3. CASE i = n - 1 \/ i = n
  <2>1. ZeroByte \notin {c[1], c[2]}
      BY CrcIsNoData DEF ZeroByte
  <2>2. FrameBytes(f)[n - 1] = c[1] /\ FrameBytes(f)[n] = c[2]
      BY FrameByte
  <2> HIDE DEF c
  <2>3. QED BY <1>3, <2>1, <2>2
<1>4. QED BY <1>1, <1>2, <1>3

\* The frame as the master sent it passes the check of eMBRTUReceive.
LEMMA FrameCrcOk ==
    ASSUME Timely, NEW f \in Frame, NEW s, s = [i \in 1..FrameLength[f] |-> FrameBytes(f)[i]]
    PROVE  CrcOk(s)
<1> DEFINE n == FrameLength[f]
           c == Crc(Data(f))
<1>1. n \in Nat /\ n >= 4 /\ n - 2 \in Nat
    BY Lengths
<1>2. Len(s) = n /\ \A i \in 1..n : s[i] = FrameBytes(f)[i]
    BY <1>1
<1>3. SubSeq(s, 1, n - 2) = Data(f)
  <2>1. SubSeq(s, 1, n - 2) = [i \in 1..(n - 2) |-> s[i]]
    <3>1. s \in Seq({FrameBytes(f)[i] : i \in 1..n})
        BY <1>1
    <3> HIDE DEF n
    <3>2. QED BY <1>1, <1>2, <3>1
  <2>2. \A i \in 1..(n - 2) : s[i] = [frame |-> f, at |-> i]
      BY <1>1, <1>2, FrameByte
  <2>3. QED BY <2>1, <2>2 DEF Data
<1>4. SubSeq(s, n - 1, n) = c
  <2>1. s[n - 1] = c[1] /\ s[n] = c[2]
      BY <1>1, <1>2, FrameByte
  <2>2. SubSeq(s, n - 1, n) = [i \in 1..2 |-> s[n - 2 + i]]
    <3>1. s \in Seq({FrameBytes(f)[i] : i \in 1..n})
        BY <1>1
    <3> HIDE DEF n
    <3>2. QED BY <1>1, <1>2, <3>1
  <2>3. c = [i \in 1..2 |-> c[i]]
      BY DEF Crc
  <2> HIDE DEF c
  <2>4. QED BY <1>1, <2>1, <2>2, <2>3
<1>5. Len(s) - MB_SER_PDU_SIZE_CRC = n - 2 /\ n - 2 >= 0 /\ (n - 2) + 1 = n - 1
    BY <1>1, <1>2 DEF MB_SER_PDU_SIZE_CRC
<1>6. QED BY <1>2, <1>3, <1>4, <1>5 DEF CrcOk

\* When nothing is outstanding and no setting waits, the slave runs at the rate of the master.
LEMMA RateAgreed ==
    ASSUME Timely, LinkInv, SettingInv, HearInv, Clean, \A f \in Frame : ~Outstanding(f)
    PROVE  uart = MasterRate
<1> USE DEF LinkInv, JobInv
<1>1. delivered \subseteq Frame
    BY DEF Line
<1>2. ASSUME NEW f \in delivered, FrameAddress[f] # "other" PROVE f \in ExecutedFrames
    BY <1>1, <1>2 DEF Outstanding, ExecutedFrames
<1>3. ASSUME NEW f \in ExecutedFrames PROVE f \in delivered /\ FrameAddress[f] # "other"
  <2>1. PICK k \in DOMAIN executed : executed[k].pdu = FramePdu(f)
      BY DEF ExecutedFrames, IsExecuted
  <2>2. PICK g \in delivered : /\ FrameAddress[g] = executed[k].to
                               /\ executed[k].to \in {"us", "broadcast"}
                               /\ executed[k].pdu = FramePdu(g)
      BY DEF Executions, ExecutesOnlyOurFrames
  <2>3. f = g
      BY <1>1, <2>1, <2>2, PduTellsFrame DEF ExecutedFrames
  <2>4. QED BY <2>2, <2>3
<1>4. (\E f \in delivered : FrameAddress[f] # "other" /\ Effect[f] = "rate") <=> baudReg = NewRate
    BY <1>2, <1>3 DEF SettingInv, RatesKnown
<1>5. baudReg = NewRate <=> _baudrate = NewRate
    BY RatesApart DEF Clean, HearInv, InTune
<1>6. QED BY <1>4, <1>5 DEF MasterRate, SettingInv, RatesKnown

\* Nobody changes a setting in the middle of a frame.
LEMMA SettledWhileSending ==
    ASSUME Timely, LinkInv, SettingInv, current # 0
    PROVE  Clean
<1>1. SUFFICES ASSUME LastDone PROVE FALSE
    BY DEF SettingInv, Dirty
<1>2. last \in Frame /\ last \notin delivered
    BY <1>1 DEF LastDone, LinkInv, JobInv, Line
<1>3. PICK g \in delivered : executed[Len(executed)].pdu = FramePdu(g)
    BY <1>1 DEF LastDone, LinkInv, JobInv, Executions, ExecutesOnlyOurFrames
<1>4. g \in Frame
    BY DEF LinkInv, JobInv, Line
<1>5. QED BY <1>1, <1>2, <1>3, <1>4, PduTellsFrame DEF LastDone

\* A request stays outstanding, and is not lost.
LEMMA OwingKept ==
    ASSUME Owing, UNCHANGED <<delivered, executed, last>>,
           HasFrame \/ ToExecute => HasFrame' \/ ToExecute'
    PROVE  Owing'
<1>1. \A f : Outstanding(f)' <=> Outstanding(f)
    BY Zenon DEF Outstanding, IsExecuted
<1>2. QED BY <1>1 DEF Owing

\* The rates do not change.
LEMMA InTuneKept ==
    ASSUME InTune, UNCHANGED <<delivered, uart, _baudrate, baudReg>>, current' \in {0, current}
    PROVE  InTune'
<1>1. MasterRate' = MasterRate
    BY Zenon DEF MasterRate
<1>2. QED BY <1>1 DEF InTune

\* A frame begins at the rate at which the slave listens.
LEMMA HearBegin ==
    ASSUME Timely, LinkInv, SettingInv, HearInv, MasterStep,
           NEW f \in Frame, BeginFrame(f, uart = MasterRate)
    PROVE  HearInv'
<1> USE DEF LinkInv, JobInv
<1>1. /\ SlaveIdle /\ current = 0 /\ last' = f /\ PutByte(f, 1, uart = MasterRate)
      /\ ~due /\ main = "poll" /\ UNCHANGED settingVars
    BY DEF BeginFrame, Waits, Timely, MasterStep
<1>2. FrameLength[f] \in Nat /\ FrameLength[f] >= 4 /\ 1 \in 1..FrameLength[f]
    BY Lengths
<1>3. poll = "get" /\ xEventInQueue = 0 /\ uie = 0 /\ isr = "none" /\ rdr = <<>> /\ txie = 0
    BY <1>1 DEF SlaveIdle
<1>4. eRcvState = "RX_IDLE"
    BY <1>3 DEF OneJob, Receiver, TypeOK, ReceiverOK, eMBRcvState
<1>5. ~HasFrame /\ ~ToExecute
    BY <1>3, <1>4 DEF HasFrame, Receiving, HasByte, FrameEvent, ToExecute
<1>6. \A g \in Frame : ~Outstanding(g)
    BY <1>5 DEF HearInv, Owing
<1>7. Clean
    BY <1>1, <1>3 DEF SettingInv, Dirty, Composing
<1>8. uart = MasterRate
    BY <1>6, <1>7, RateAgreed
<1>9. /\ rdr' = <<FrameBytes(f)[1]>> /\ isr' = "none" /\ eRcvState' = "RX_IDLE"
      /\ delivered' = delivered /\ executed' = executed
    BY <1>1, <1>2, <1>3, <1>4, <1>8 DEF PutByte, UartReceive, isrVars, rcvVars, history
<1>10. Undisturbed'
  <2>1. Stored' = 0
      BY <1>9 DEF Stored, HasByte
  <2>2. rdr'[1] # ZeroByte
      BY <1>2, <1>9, BytesAreNotZero
  <2>3. QED BY <1>9, <2>1, <2>2 DEF Undisturbed
<1>11. Owing'
  <2>1. \A g : Outstanding(g)' <=> Outstanding(g)
      BY <1>9, Zenon DEF Outstanding, IsExecuted
  <2>2. QED BY <1>6, <2>1 DEF Owing
<1>12. InTune'
  <2>1. MasterRate' = MasterRate /\ UNCHANGED <<uart, _baudrate, baudReg>>
      BY <1>1, <1>9, Zenon DEF MasterRate, settingVars
  <2>2. QED BY <1>8, <2>1 DEF HearInv, InTune
<1>13. QED BY <1>10, <1>11, <1>12 DEF HearInv

\* The next byte comes at the same rate; the last one makes a request outstanding.
LEMMA HearContinue ==
    ASSUME Timely, LinkInv, SettingInv, HearInv, MasterStep,
           ContinueFrame(CharTicks[MasterRate], uart = MasterRate)
    PROVE  /\ HearInv'
           /\ last' = last /\ last \notin delivered /\ last \in Frame
           /\ delivered' \in {delivered, delivered \cup {last}}
           /\ UNCHANGED history /\ Receiving
<1> USE DEF LinkInv, JobInv
<1> DEFINE f == current
<1>1. /\ f # 0 /\ ~ByteWaiting /\ PutByte(f, at + 1, uart = MasterRate)
      /\ last' = last /\ UNCHANGED settingVars
    BY DEF ContinueFrame, MasterStep
<1>2. f = last /\ f \notin delivered /\ f \in Frame
    BY <1>1 DEF Line
<1>3. FrameLength[f] \in Nat
    BY <1>2, Lengths
<1>4. Receiving
    BY ContinuedIsReceived
<1>5. isr = "none" /\ rdr = <<>> /\ HasFrame
    BY <1>1, <1>4 DEF ByteWaiting, HalfDuplex, TypeOK, TransmitterOK, eMBSndState, OneJob, InterruptsOK,
                      HasFrame
<1>6. eRcvState = "RX_RCV" /\ Stored = usRcvBufferPos /\ Arrived = Stored
    BY <1>4, <1>5 DEF Receiving, HasByte, Stored, Arrived
<1>7. at + 1 \in 1..FrameLength[f]
    BY <1>1, <1>2, <1>3, <1>5 DEF InFrame
<1>8. uart = MasterRate
    BY <1>1 DEF HearInv, InTune
<1>9. /\ rdr' = <<FrameBytes(f)[at + 1]>>
      /\ UNCHANGED <<isr, eRcvState, usRcvBufferPos, ucRTUBuf, executed, history>>
      /\ \/ current' = 0 /\ delivered' = delivered \cup {f}
         \/ current' = f /\ delivered' = delivered
    BY <1>1, <1>5, <1>8 DEF PutByte, UartReceive, isrVars, rcvVars, history
<1>10. Undisturbed'
  <2>1. Stored' = Stored
      BY <1>6, <1>9 DEF Stored
  <2>2. rdr'[1] # ZeroByte
      BY <1>2, <1>7, <1>9, BytesAreNotZero
  <2>3. QED BY <1>5, <1>9, <2>1, <2>2 DEF HearInv, Undisturbed
<1>11. Owing'
  <2>1. HasFrame'
      BY <1>6, <1>9 DEF HasFrame, Receiving
  <2>2. ASSUME NEW g \in Frame, Outstanding(g)', g # f PROVE Outstanding(g)
      BY <1>9, <2>2 DEF Outstanding, IsExecuted
  <2>3. \A g \in Frame : Outstanding(g)' => g = f
      BY <1>2, <2>2 DEF HearInv, Owing, Outstanding
  <2>4. QED BY <1>1, <1>2, <2>1, <2>3 DEF Owing
<1>12. InTune'
  <2>1. UNCHANGED <<uart, _baudrate, baudReg>>
      BY <1>1 DEF settingVars
  <2>2. delivered' = delivered => MasterRate' = MasterRate
      BY Zenon DEF MasterRate
  <2>3. QED BY <1>8, <1>9, <2>1, <2>2 DEF HearInv, InTune
<1>13. QED BY <1>1, <1>2, <1>4, <1>9, <1>10, <1>11, <1>12 DEF HearInv

\* The interrupts, and time.
LEMMA HearInterrupt ==
    ASSUME Timely, LinkInv, HearInv, Interrupt \/ StallTick \/ BreakFrame \/ UNCHANGED remoteVars,
           UNCHANGED settingVars
    PROVE  HearInv'
<1> USE DEF LinkInv, JobInv
<1>1. /\ UNCHANGED <<delivered, executed, last, uart, _baudrate, baudReg>>
      /\ current' \in {0, current}
    BY DEF Interrupt, Tick, Tim2, ReceiveIsr, Transmit, StallTick, BreakFrame, remoteVars, linkVars,
           masterVars, history, settingVars
<1>2. InTune'
    BY <1>1, InTuneKept DEF HearInv
<1>3. CASE Tick \/ StallTick \/ BreakFrame \/ UNCHANGED remoteVars
  <2>1. UNCHANGED <<rcvVars, ucRTUBuf, rdr, isrVars, queueVars, poll>>
      BY <1>3 DEF Tick, Tim2Update, StallTick, BreakFrame, remoteVars, linkVars, vars, usartVars,
                  mainVars
  <2>2. UNCHANGED <<HasFrame, ToExecute, Stored>>
      BY <2>1, Zenon DEF HasFrame, Receiving, HasByte, FrameEvent, ToExecute, Stored, rcvVars, isrVars,
                         queueVars
  <2>3. Undisturbed'
      BY <2>1, <2>2 DEF HearInv, Undisturbed, isrVars
  <2>4. QED BY <1>1, <1>2, <2>2, <2>3, OwingKept DEF HearInv
<1>4. CASE Tim2
  <2>1. UNCHANGED <<ucRTUBuf, rdr, isrVars, poll, usRcvBufferPos>>
      BY <1>4 DEF Tim2, Tim2Isr, T35Expired, Fail, rcvVars, usartVars, mainVars
  <2>2. CASE UNCHANGED <<eRcvState, queueVars>>
    <3>1. UNCHANGED <<HasFrame, ToExecute, Stored>>
        BY <2>1, <2>2, Zenon DEF HasFrame, Receiving, HasByte, FrameEvent, ToExecute, Stored, isrVars,
                           queueVars
    <3>2. Undisturbed'
        BY <2>1, <3>1 DEF HearInv, Undisturbed, isrVars
    <3>3. QED BY <1>1, <1>2, <3>1, <3>2, OwingKept DEF HearInv
  <2>3. CASE ~UNCHANGED <<eRcvState, queueVars>>
    <3>1. (downcounter - 1) % 65536 = 0 /\ Tim2Isr /\ uie = 1
        BY <1>4, <2>3 DEF Tim2, Tim2Isr, Tim2Pending, rcvVars
    <3>2. ~HasByte /\ eRcvState \in {"RX_INIT", "RX_RCV"}
        BY <3>1, Expiry DEF Receiver, TypeOK, ReceiverOK, eMBRcvState
    <3>3. /\ eRcvState' = "RX_IDLE" /\ xEventInQueue' = 1
          /\ \/ eRcvState = "RX_INIT" /\ eQueuedEvent' = "EV_READY"
             \/ eRcvState = "RX_RCV" /\ eQueuedEvent' = "EV_FRAME_RECEIVED"
        BY <3>1, <3>2 DEF Tim2Isr, T35Expired, xMBPortEventPost
    <3>4. ~HasByte' /\ ~Receiving' /\ Stored' = usRcvBufferPos
        BY <2>1, <3>2, <3>3 DEF HasByte, Receiving, Stored, isrVars
    <3>5. poll = "get" /\ xEventInQueue = 0
        BY <3>2 DEF OneJob, Receiving, EventPending, TypeOK, InterruptsOK
    <3>6. CASE eRcvState = "RX_INIT"
      <4>1. ~Receiving
          BY <3>6 DEF OneJob
      <4>2. ~HasFrame /\ ~ToExecute /\ ~HasFrame'
          BY <2>1, <3>3, <3>4, <3>5, <3>6, <4>1 DEF HasFrame, FrameEvent, ToExecute
      <4>3. QED BY <1>1, <1>2, <4>2, OwingKept DEF HearInv, Undisturbed
    <3>7. CASE eRcvState = "RX_RCV"
      <4>1. HasFrame /\ HasFrame' /\ Stored = usRcvBufferPos
          BY <3>2, <3>3, <3>7 DEF HasFrame, Receiving, FrameEvent, Stored
      <4>2. Undisturbed'
          BY <2>1, <3>4, <4>1 DEF HearInv, Undisturbed, isrVars
      <4>3. QED BY <1>1, <1>2, <4>1, <4>2, OwingKept DEF HearInv
    <3>8. QED BY <3>2, <3>6, <3>7
  <2>4. QED BY <2>2, <2>3
<1>5. CASE ReceiveIsr
  <2>1. HasByte /\ HasFrame
      BY <1>5, ByteInHand DEF ReceiveIsr, ReceiveByte, StoreByte, RestartTimer, HasByte
  <2>2. CASE ReceiveByte
    <3>1. /\ ucByte' = rdr[1] /\ rdr' = <<>> /\ isr' = "store" /\ rdr # <<>> /\ isr = "none"
          /\ UNCHANGED <<rcvVars, ucRTUBuf>>
        BY <2>1, <2>2, ByteInHand DEF ReceiveByte
    <3>2. HasFrame' /\ Stored' = Stored
        BY <2>1, <3>1 DEF HasFrame, Receiving, HasByte, Stored, rcvVars
    <3>3. Undisturbed'
        BY <2>1, <3>1, <3>2 DEF HearInv, Undisturbed
    <3>4. QED BY <1>1, <1>2, <3>2, <3>3, OwingKept DEF HearInv
  <2>3. CASE StoreByte
    <3>1. /\ isr = "store" /\ stateRead = eRcvState /\ rdr = <<>> /\ isr' = "arm" /\ rdr' = rdr
          /\ eRcvState' = "RX_RCV" /\ usRcvBufferPos' = Stored + 1
          /\ ucRTUBuf' = [ucRTUBuf EXCEPT ![Stored] = ucByte]
        BY <2>3, StoredByte
    <3>2. HasFrame' /\ Stored' = Stored + 1
        BY <3>1 DEF HasFrame, Receiving, Stored
    <3>3. ucByte # ZeroByte /\ \A i \in 0..(Stored - 1) : ucRTUBuf[i] # ZeroByte
        BY <2>1, <3>1 DEF HearInv, Undisturbed
    <3>4. Stored \in Nat /\ Stored \in DOMAIN ucRTUBuf
        BY <2>3, StoredByte
    <3>5. \A i \in 0..Stored : ucRTUBuf'[i] # ZeroByte
      <4>1. \A i \in 0..Stored : i = Stored \/ i \in 0..(Stored - 1)
          BY <3>4
      <4>2. \A i \in 0..(Stored - 1) : ucRTUBuf'[i] \in {ucRTUBuf[i], ucByte}
          BY <3>1
      <4>3. QED BY <3>1, <3>3, <3>4, <4>1, <4>2
    <3>6. Undisturbed'
        BY <3>1, <3>2, <3>4, <3>5 DEF Undisturbed
    <3>7. QED BY <1>1, <1>2, <3>2, <3>6, OwingKept DEF HearInv
  <2>4. CASE RestartTimer
    <3>1. /\ isr = "arm" /\ eRcvState = "RX_RCV" /\ isr' = "none" /\ rdr' = rdr
          /\ UNCHANGED <<rcvVars, ucRTUBuf>>
        BY <2>4 DEF RestartTimer, Receiver, usartVars
    <3>2. HasFrame' /\ Stored' = Stored
        BY <2>1, <3>1 DEF HasFrame, Receiving, Stored, rcvVars
    <3>3. Undisturbed'
        BY <2>1, <3>1, <3>2 DEF HearInv, Undisturbed
    <3>4. QED BY <1>1, <1>2, <3>2, <3>3, OwingKept DEF HearInv
  <2>5. QED BY <1>5, <2>2, <2>3, <2>4 DEF ReceiveIsr
<1>6. CASE Transmit
  <2>1. txie = 1 /\ UNCHANGED <<isr, rdr, eRcvState, poll>>
        /\ (UNCHANGED queueVars \/ eQueuedEvent' = "EV_FRAME_SENT")
      BY <1>6 DEF Transmit, TransmitByte, Fail, isrVars, rcvVars, usartVars, mainVars, xMBPortEventPost
  <2>2. ~Receiving /\ poll = "get" /\ xEventInQueue = 0
      BY <2>1 DEF OneJob, EventPending, TypeOK, InterruptsOK
  <2>3. ~HasFrame /\ ~ToExecute
      BY <2>2 DEF HasFrame, FrameEvent, ToExecute
  <2>4. ~HasFrame'
      BY <2>1, <2>2 DEF HasFrame, FrameEvent, Receiving, HasByte, queueVars
  <2>5. QED BY <1>1, <1>2, <2>3, <2>4, OwingKept DEF HearInv, Undisturbed
<1>7. QED BY <1>3, <1>4, <1>5, <1>6 DEF Interrupt

\* The whole frame, undisturbed, is accepted.
LEMMA FrameAccepted ==
    ASSUME Timely, LinkInv, Undisturbed, poll = "receive", last \in delivered
    PROVE  FrameOk /\ AddressOf(ucRTUBuf[0]) = FrameAddress[last]
<1> USE DEF LinkInv, JobInv
<1> DEFINE n == FrameLength[last]
<1>1. EventPending /\ HasFrame /\ usRcvBufferPos < MB_SER_PDU_SIZE_MAX /\ last \in Frame
    BY Received DEF EventPending, HasFrame, FrameEvent
<1>2. Stored = usRcvBufferPos /\ Arrived = usRcvBufferPos
    BY <1>1, AtWork
<1>3. usRcvBufferPos = n /\ n \in Nat /\ n >= 4
    BY <1>1, <1>2, Lengths DEF InFrame
<1>4. \A i \in 0..(n - 1) : ucRTUBuf[i] = FrameBytes(last)[i + 1]
    BY <1>1, <1>2, <1>3 DEF InFrame, Genuine, Undisturbed
<1>5. Bytes(0, n) = [i \in 1..n |-> FrameBytes(last)[i]]
  <2>1. Bytes(0, n) = [i \in 1..n |-> ucRTUBuf[i - 1]]
      BY <1>3 DEF Bytes
  <2>2. \A i \in 1..n : i - 1 \in 0..(n - 1) /\ (i - 1) + 1 = i
      BY <1>3
  <2>3. \A i \in 1..n : ucRTUBuf[i - 1] = FrameBytes(last)[i]
      BY <1>4, <2>2
  <2> HIDE DEF n, FrameBytes
  <2>4. QED BY <2>1, <2>3
<1>6. CrcOk(Bytes(0, n))
    BY <1>1, <1>5, FrameCrcOk
<1>7. FrameOk
    BY <1>3, <1>6 DEF FrameOk, MB_SER_PDU_SIZE_MIN
<1>8. QED BY <1>7, Received

\* Nothing is outstanding when there is nothing to look at and nothing to execute.
LEMMA NothingOutstanding ==
    ASSUME Owing, ~HasFrame, ~ToExecute, UNCHANGED <<delivered, executed, last>>
    PROVE  Owing'
BY OwingKept

\* eMBPoll hands a request on from the receiver to its handler without losing it.
LEMMA HearStack ==
    ASSUME Timely, LinkInv, SettingInv, HearInv, StackStep
    PROVE  HearInv'
<1> USE DEF LinkInv, JobInv
<1>1. /\ main = "poll" /\ ~due /\ EventPending /\ UNCHANGED <<last, quiet, marred>>
      /\ ~Receiving /\ ~Receiving'
    BY PollIsDeaf
<1>2. delivered' = delivered /\ current' = current
    BY DEF StackStep, RunHandler, OtherPoll, SendReply, masterVars
<1>3. InTune'
  <2>1. UNCHANGED <<uart, _baudrate>> /\ baudReg' \in {baudReg, NewRate}
      BY DEF StackStep, Writes, Settings!Request, settingVars
  <2>2. MasterRate' = MasterRate
      BY <1>2, Zenon DEF MasterRate
  <2>3. QED BY <1>2, <2>1, <2>2 DEF HearInv, InTune
<1>4. ASSUME RunHandler PROVE HearInv'
  <2>1. poll = "execute" /\ poll' = "reply" /\ xEventInQueue' = xEventInQueue
      BY <1>4 DEF RunHandler, Execute, queueVars
  <2>2. ~HasFrame'
      BY <1>1, <2>1 DEF OneJob, HasFrame, FrameEvent
  <2>3. Owing'
    <3>1. ExecutedFrames' = ExecutedFrames \cup {last}
        BY <1>4, HandlerExecutes
    <3>2. ASSUME NEW g \in Frame, Outstanding(g)' PROVE Outstanding(g) /\ g # last
        BY <1>2, <3>1, <3>2 DEF Outstanding, ExecutedFrames
    <3>3. QED BY <3>2 DEF HearInv, Owing
  <2>4. QED BY <1>3, <2>2, <2>3 DEF HearInv, Undisturbed
<1>5. ASSUME OtherPoll \/ SendReply PROVE HearInv'
  <2>1. UNCHANGED <<delivered, executed, last>>
      BY <1>1, <1>2, <1>5 DEF OtherPoll, SendReply, history
  <2>2. CASE GetEvent
    <3>1. poll = "get" /\ poll' = "clear"
          /\ UNCHANGED <<queueVars, rcvVars, ucRTUBuf, rdr, isrVars>>
        BY <2>2 DEF GetEvent, usartVars
    <3>2. HasFrame' = HasFrame /\ (ToExecute => ToExecute') /\ Stored' = Stored
        BY <1>1, <3>1 DEF HasFrame, FrameEvent, ToExecute, Stored, HasByte, Receiving, queueVars,
                          rcvVars, isrVars
    <3>3. Undisturbed'
        BY <3>1, <3>2 DEF HearInv, Undisturbed, isrVars
    <3>4. QED BY <1>3, <2>1, <3>2, <3>3, OwingKept DEF HearInv
  <2>3. CASE ClearQueue
    <3>1. /\ poll = "clear" /\ xEventInQueue = 1 /\ eEvent = eQueuedEvent /\ xEventInQueue' = 0
          /\ poll' = IF eEvent = "EV_FRAME_RECEIVED" THEN "receive"
                     ELSE IF eEvent = "EV_EXECUTE" THEN "execute" ELSE "get"
          /\ UNCHANGED <<rcvVars, ucRTUBuf, rdr, isrVars>>
        BY <2>3 DEF ClearQueue, usartVars, OneJob
    <3>2. (HasFrame' <=> HasFrame) /\ (ToExecute => ToExecute')
        BY <1>1, <3>1 DEF HasFrame, FrameEvent, ToExecute
    <3>3. Stored' = Stored
        BY <3>1, Zenon DEF Stored, HasByte, rcvVars, isrVars
    <3>4. Undisturbed'
        BY <3>1, <3>2, <3>3 DEF HearInv, Undisturbed, isrVars
    <3>5. QED BY <1>3, <2>1, <3>2, <3>4, OwingKept DEF HearInv
  <2>4. CASE Receive
    <3>1. /\ poll = "receive" /\ xEventInQueue = 0 /\ xEventInQueue' = 0
          /\ poll' = IF FrameOk /\ ForUs(AddressOf(ucRTUBuf[0])) THEN "post" ELSE "get"
      <4>1. poll = "receive" /\ xEventInQueue = 0
          BY <2>4 DEF Receive, OneJob, TypeOK, InterruptsOK
      <4>2. ~(usRcvBufferPos >= MB_SER_PDU_SIZE_MAX)
          BY <4>1, Received, BufferSizes
      <4>3. QED BY <2>4, <4>1, <4>2, Zenon DEF Receive, queueVars
    <3>2. ~HasFrame'
        BY <1>1, <3>1 DEF HasFrame, FrameEvent
    <3>3. ASSUME NEW g \in Frame, Outstanding(g)' PROVE g = last /\ ToExecute'
      <4>1. Outstanding(g)
          BY <2>1, <3>3, Zenon DEF Outstanding, IsExecuted
      <4>2. g = last /\ last \in delivered /\ FrameAddress[last] # "other"
          BY <4>1 DEF HearInv, Owing, Outstanding
      <4>3. FrameOk /\ ForUs(AddressOf(ucRTUBuf[0]))
          BY <3>1, <4>2, FrameAccepted, FrameAssumption DEF HearInv, ForUs
      <4>4. poll' = "post"
          BY <3>1, <4>3
      <4>5. QED BY <4>2, <4>4 DEF ToExecute
    <3>4. QED BY <1>1, <1>3, <3>2, <3>3 DEF HearInv, Undisturbed, Owing
  <2>5. CASE PostExecute
    <3>1. poll = "post" /\ poll' = "get" /\ xEventInQueue' = 1 /\ eQueuedEvent' = "EV_EXECUTE"
        BY <2>5 DEF PostExecute, xMBPortEventPost, AfterPost
    <3>2. ToExecute' /\ ~HasFrame'
        BY <1>1, <3>1 DEF HasFrame, FrameEvent, ToExecute
    <3>3. QED BY <1>3, <2>1, <3>2, OwingKept DEF HearInv, Undisturbed
  <2>6. CASE BuildReply \/ Send
    <3>1. /\ poll \in {"reply", "send"} /\ poll' \in {"send", "get"}
          /\ xEventInQueue = 0 /\ xEventInQueue' = 0
        BY <2>6 DEF BuildReply, Send, OneJob, TypeOK, InterruptsOK, queueVars
    <3>2. ~HasFrame /\ ~ToExecute /\ ~HasFrame'
        BY <1>1, <3>1 DEF HasFrame, FrameEvent, ToExecute
    <3>3. QED BY <1>3, <2>1, <3>2, NothingOutstanding DEF HearInv, Undisturbed
  <2>7. QED BY <1>5, <2>2, <2>3, <2>4, <2>5, <2>6 DEF OtherPoll, SendReply
<1>6. QED BY <1>4, <1>5 DEF StackStep

\* The rate changes between two frames.
LEMMA HearModules ==
    ASSUME Timely, LinkInv, SettingInv, HearInv, ModulesStep
    PROVE  HearInv'
<1>1. UNCHANGED <<rcvVars, ucRTUBuf, rdr, isrVars, queueVars, poll, delivered, executed, last, current>>
    BY DEF ModulesStep, linkVars, history, masterVars, vars, mainVars, usartVars
<1>2. UNCHANGED <<HasFrame, ToExecute, Stored>>
    BY <1>1, Zenon DEF HasFrame, Receiving, HasByte, FrameEvent, ToExecute, Stored, rcvVars, isrVars,
                       queueVars
<1>3. Undisturbed'
    BY <1>1, <1>2 DEF HearInv, Undisturbed, isrVars
<1>4. Owing'
    BY <1>1, <1>2, OwingKept DEF HearInv
<1>5. InTune'
  <2>1. MasterRate' = MasterRate
      BY <1>1, Zenon DEF MasterRate
  <2>2. CASE UsartPass
    <3>1. /\ baudReg' = baudReg
          /\ IF Settings!RateDiffers THEN _baudrate' = baudReg /\ uart' = baudReg
                                     ELSE UNCHANGED <<_baudrate, uart>>
        BY <2>2 DEF UsartPass, Settings!_baudrate_set, Settings!usart_set_baudrate
    <3>2. current # 0 => ~Settings!RateDiffers
        BY SettledWhileSending DEF Clean
    <3>3. QED BY <1>1, <2>1, <3>1, <3>2 DEF HearInv, InTune
  <2>3. CASE FlashPass
    <3>1. UNCHANGED <<baudReg, _baudrate, uart>>
        BY <2>3 DEF FlashPass, Settings!_polling_flash_data, Settings!ErasePage,
                    Settings!ProgramHalfWord
    <3>2. QED BY <1>1, <2>1, <3>1 DEF HearInv, InTune
  <2>4. QED BY <2>2, <2>3 DEF ModulesStep
<1>6. QED BY <1>3, <1>4, <1>5 DEF HearInv

LEMMA HearStep ==
    ASSUME Timely, LinkInv, SettingInv, HearInv, [RestingNext]_remoteVars
    PROVE  HearInv'
<1>1. CASE MasterStep
    BY <1>1, HearBegin, HearContinue, HearInterrupt DEF MasterStep, Master
<1>2. CASE Interrupt \/ StallTick \/ UNCHANGED remoteVars
  <2>1. UNCHANGED settingVars
      BY <1>2 DEF Interrupt, StallTick, remoteVars
  <2>2. QED BY <1>2, <2>1, HearInterrupt
<1>3. CASE StackStep \/ ModulesStep
    BY <1>3, HearStack, HearModules
<1>4. QED BY <1>1, <1>2, <1>3 DEF RestingNext

(* ------------------------------ what is answered --------------------------------------- *)

\* The answer to the frame begun last is owed until its last byte has been transmitted.
Owed ==
    \A f \in Frame :
      Unanswered(f) <=> /\ f = last /\ FrameAddress[f] = "us"
                        /\ Composing \/ (txie = 1 /\ usSndBufferCount # 0)

\* No answer is empty.
Long ==
    /\ poll = "send" => usLength > 0
    /\ txie = 1 => pucSndBufferCur + usSndBufferCount > 3

OwedInv == Owed /\ Long

\* A whole reply tells the request it answers, and is the beginning of no other one.
LEMMA ReplyTells ==
    ASSUME NEW p, NEW q, NEW n \in Nat, NEW m \in Nat, m # 0, NEW i \in Nat, i <= n + 3,
           SubSeq(Reply(p, n), 1, i) = Reply(q, m)
    PROVE  p = q /\ n = m /\ i = n + 3
<1> DEFINE s == Reply(p, n)
           t == Reply(q, m)
<1>1. /\ Len(s) = n + 3 /\ \A j \in 1..n : s[j + 1] = AnswerByte(p, j)
      /\ \E S : s \in Seq(S)
    BY ReplyByte
<1>2. /\ Len(t) = m + 3 /\ \A j \in 1..m : t[j + 1] = AnswerByte(q, j)
      /\ t[m + 2] = Crc(BeforeCrc(q, m))[1]
    BY ReplyByte
<1> HIDE DEF s, t
<1>3. Len(SubSeq(s, 1, i)) = i /\ \A j \in 1..i : SubSeq(s, 1, i)[j] = s[j]
    BY <1>1
<1>4. i = m + 3 /\ m <= n
    BY <1>2, <1>3 DEF s, t
<1>5. \A j \in 1..i : s[j] = t[j]
    BY <1>3 DEF s, t
<1>6. p = q
  <2>1. s[2] = t[2] /\ 1 \in 1..n /\ 1 \in 1..m /\ 1 + 1 = 2
      BY <1>4, <1>5
  <2>2. AnswerByte(p, 1) = AnswerByte(q, 1)
      BY <1>1, <1>2, <2>1
  <2>3. QED BY <2>2 DEF AnswerByte
<1>7. n = m
  <2>1. SUFFICES ASSUME m < n PROVE FALSE
      BY <1>4
  <2>2. s[m + 2] = t[m + 2] /\ m + 1 \in 1..n /\ (m + 1) + 1 = m + 2
      BY <1>4, <1>5, <2>1
  <2>3. AnswerByte(p, m + 1) = Crc(BeforeCrc(q, m))[1]
      BY <1>1, <1>2, <2>2
  <2>4. "answers" \in DOMAIN AnswerByte(p, m + 1) /\ "answers" \notin DOMAIN Crc(BeforeCrc(q, m))[1]
    <3>1. "answers" \in DOMAIN AnswerByte(p, m + 1)
        BY DEF AnswerByte
    <3>2. DOMAIN Crc(BeforeCrc(q, m))[1] = {"crc", "at"}
        BY DEF Crc
    <3>3. QED BY <3>1, <3>2
  <2>5. QED BY <2>3, <2>4
<1>8. QED BY <1>4, <1>6, <1>7

\* Only what has been executed is answered.
LEMMA AnsweredIsExecuted ==
    ASSUME Matched, NEW f, IsAnswered(f)
    PROVE  IsExecuted(f)
<1>1. PICK k \in DOMAIN replies, m \in ReplyLength \ {0} : replies[k] = Reply(FramePdu(f), m)
    BY DEF IsAnswered
<1>2. PICK j \in DOMAIN executed, n \in ReplyLength, i \in Nat :
        i <= n + 3 /\ replies[k] = SubSeq(Reply(executed[j].pdu, n), 1, i)
    BY DEF Matched
<1>3. m \in Nat /\ m # 0 /\ n \in Nat
    BY ReplyLengths
<1>4. executed[j].pdu = FramePdu(f)
  <2>1. SubSeq(Reply(executed[j].pdu, n), 1, i) = Reply(FramePdu(f), m)
      BY <1>1, <1>2
  <2>2. QED BY <1>2, <1>3, <2>1, ReplyTells, Zenon
<1>5. QED BY <1>4 DEF IsExecuted

\* While it is being answered, the request is known by its address.
LEMMA AnsweredFrame ==
    ASSUME Timely, LinkInv, Answering, ToAnswer
    PROVE  last \in Frame /\ FrameAddress[last] = ucRcvAddress /\ request = FramePdu(last)
<1>1. /\ last \in Frame /\ Len(executed) > 0
      /\ executed[Len(executed)].pdu = FramePdu(last) /\ request = FramePdu(last)
      /\ executed[Len(executed)].to = ucRcvAddress
    BY DEF Answering, AnswersLast
<1>2. Len(executed) \in DOMAIN executed
    BY <1>1, LenProperties DEF LinkInv, JobInv, Executions
<1>3. PICK g \in delivered : /\ FrameAddress[g] = executed[Len(executed)].to
                             /\ executed[Len(executed)].pdu = FramePdu(g)
    BY <1>2 DEF LinkInv, JobInv, Executions, ExecutesOnlyOurFrames
<1>4. g \in Frame
    BY DEF LinkInv, JobInv, Line
<1>5. QED BY <1>1, <1>3, <1>4, PduTellsFrame

\* A step that leaves the answers alone.
LEMMA OwedKept ==
    ASSUME OwedInv, UNCHANGED <<executed, replies>>,
           \/ UNCHANGED <<poll, txie, last, usLength, sndVars>>
           \/ ~ToAnswer /\ ~ToAnswer'
    PROVE  OwedInv'
<1>1. \A f : Unanswered(f)' <=> Unanswered(f)
    BY Zenon DEF Unanswered, IsExecuted, IsAnswered
<1>2. CASE UNCHANGED <<poll, txie, last, usLength, sndVars>>
    BY <1>1, <1>2 DEF OwedInv, Owed, Long, Composing, sndVars
<1>3. CASE ~ToAnswer /\ ~ToAnswer'
    BY <1>1, <1>3 DEF OwedInv, Owed, Long, Composing, ToAnswer
<1>4. QED BY <1>2, <1>3

\* The handler makes an answer owed, unless its request was a broadcast.
LEMMA HandlerOwes ==
    ASSUME Timely, LinkInv, Answering, OwedInv, RunHandler
    PROVE  OwedInv' /\ ~IsAnswered(last)
<1>1. /\ poll = "execute" /\ poll' = "reply" /\ txie' = 0 /\ txie = 0
      /\ UNCHANGED <<last, replies>>
  <2>1. EventPending /\ poll = "execute"
      BY DEF RunHandler, Execute, EventPending
  <2>2. QED BY <2>1, AtWork DEF RunHandler, Execute, usartVars, masterVars
<1>2. ExecutedFrames' = ExecutedFrames \cup {last} /\ last \notin ExecutedFrames /\ last \in Frame
    BY HandlerExecutes, Handled
<1>3. ~IsAnswered(last)
    BY <1>2, AnsweredIsExecuted DEF Answering, ExecutedFrames
<1>4. \A f \in Frame : IsAnswered(f)' <=> IsAnswered(f)
    BY <1>1, Zenon DEF IsAnswered
<1>5. \A f \in Frame : IsExecuted(f)' <=> IsExecuted(f) \/ f = last
    BY <1>2 DEF ExecutedFrames
<1>6. \A f \in Frame : ~Unanswered(f)
    BY <1>1 DEF OwedInv, Owed, Composing
<1>7. Owed'
  <2>1. \A f \in Frame : Unanswered(f)' <=> f = last /\ FrameAddress[f] = "us"
      BY <1>3, <1>4, <1>5, <1>6 DEF Unanswered
  <2>2. QED BY <1>1, <2>1 DEF Owed, Composing
<1>8. QED BY <1>1, <1>3, <1>7 DEF OwedInv, Long

LEMMA BuildOwes ==
    ASSUME Timely, LinkInv, Answering, OwedInv, BuildReply, UNCHANGED <<masterVars, timeVars, history>>
    PROVE  OwedInv'
<1>1. /\ poll = "reply" /\ poll' \in {"send", "get"} /\ txie = 0 /\ txie' = 0
      /\ poll' = "send" <=> ucRcvAddress # "broadcast"
      /\ UNCHANGED <<executed, replies, last>>
  <2>1. EventPending /\ poll = "reply"
      BY DEF BuildReply, EventPending
  <2>2. QED BY <2>1, AtWork DEF BuildReply, Answers, usartVars, masterVars, history
<1>2. FrameAddress[last] = ucRcvAddress
    BY <1>1, AnsweredFrame DEF ToAnswer
<1>3. \A f : Unanswered(f)' <=> Unanswered(f)
    BY <1>1, Zenon DEF Unanswered, IsExecuted, IsAnswered
<1>4. Owed'
    BY <1>1, <1>2, <1>3 DEF OwedInv, Owed, Composing
<1>5. Long'
  <2>1. PICK n \in ReplyLength : (n > 0 \/ ucRcvAddress = "broadcast") /\ usLength' = n
      BY DEF BuildReply
  <2>2. QED BY <1>1, <2>1 DEF Long
<1>6. QED BY <1>4, <1>5 DEF OwedInv

\* The transmission begins with nothing transmitted.
LEMMA SendOwes ==
    ASSUME Timely, LinkInv, Answering, OwedInv, SendReply
    PROVE  OwedInv' /\ \A f : IsAnswered(f)' <=> IsAnswered(f)
<1>1. poll = "send" /\ EventPending
    BY DEF SendReply, Send, EventPending
<1>2. eRcvState = "RX_IDLE" /\ txie = 0
    BY <1>1, AtWork
<1>3. usLength \in Nat /\ usLength > 0
    BY <1>1 DEF LinkInv, TypeOK, PollOK, OwedInv, Long
<1>4. /\ poll' = "get" /\ txie' = 1 /\ pucSndBufferCur' = 0 /\ usSndBufferCount' = usLength + 3
      /\ replies' = Append(replies, <<>>) /\ UNCHANGED <<executed, last>>
  <2>1. usLength + 1 + 2 = usLength + 3
      BY <1>3
  <2>2. QED BY <1>2, <2>1 DEF SendReply, Send, vMBPortSerialEnable, masterVars, MB_SER_PDU_SIZE_CRC
<1>5. replies \in Seq(Transmitted)
    BY DEF Answering, Counted
<1>6. /\ DOMAIN replies = 1..Len(replies) /\ Len(replies) \in Nat
      /\ DOMAIN replies' = 1..(Len(replies) + 1)
      /\ \A k \in 1..Len(replies) : replies'[k] = replies[k]
      /\ replies'[Len(replies) + 1] = <<>>
    BY <1>4, <1>5
<1>7. ASSUME NEW f PROVE IsAnswered(f)' <=> IsAnswered(f)
  <2>1. ASSUME NEW k \in DOMAIN replies', NEW n \in ReplyLength \ {0},
               Len(replies'[k]) = n + 3
        PROVE  k \in DOMAIN replies /\ replies'[k] = replies[k]
    <3>1. n \in Nat
        BY ReplyLengths
    <3>2. Len(<<>>) = 0
        OBVIOUS
    <3>3. k # Len(replies) + 1
        BY <1>6, <2>1, <3>1, <3>2
    <3>4. QED BY <1>6, <3>3
  <2>2. \A k \in DOMAIN replies : k \in DOMAIN replies' /\ replies'[k] = replies[k]
      BY <1>6
  <2>3. QED BY <2>1, <2>2 DEF IsAnswered
<1>8. \A f : Unanswered(f)' <=> Unanswered(f)
    BY <1>4, <1>7, Zenon DEF Unanswered, IsExecuted
<1>9. OwedInv'
    BY <1>1, <1>3, <1>4, <1>8 DEF OwedInv, Owed, Long, Composing
<1>10. QED BY <1>7, <1>9

\* Intervals of the same elements end at the same number.
LEMMA SameInterval ==
    ASSUME NEW a \in Nat, NEW b \in Nat, 1..a = 1..b
    PROVE  a = b
<1>1. CASE a = 0 \/ b = 0
    BY <1>1
<1>2. CASE a # 0 /\ b # 0
  <2>1. a \in 1..a /\ b \in 1..b
      BY <1>2
  <2>2. a \in 1..b /\ b \in 1..a
      BY <2>1
  <2>3. QED BY <2>2
<1>3. QED BY <1>1, <1>2

\* The answer is out with its last byte, and not before.
LEMMA TransmitOwes ==
    ASSUME Timely, LinkInv, Answering, Answering', OwedInv, Transmit
    PROVE  /\ OwedInv'
           /\ \/ \A f \in Frame : IsAnswered(f)' <=> IsAnswered(f)
              \/ /\ last \in Frame /\ Unanswered(last)
                 /\ \A f \in Frame : IsAnswered(f)' <=> IsAnswered(f) \/ f = last
<1>1. /\ txie = 1 /\ poll = "get" /\ poll' = "get" /\ ToAnswer /\ TransmitByte
      /\ eSndState = "TX_XMIT" /\ eRcvState = "RX_IDLE"
      /\ UNCHANGED <<executed, last, request>>
    BY DEF Transmit, TransmitByte, LinkInv, JobInv, OneJob, EventPending, HalfDuplex, ToAnswer,
           masterVars, mainVars
<1>2. last \in Frame /\ request = FramePdu(last) /\ FrameAddress[last] = "us"
    BY <1>1, AnsweredFrame, AnsweredIsOurs
<1>3. CASE usSndBufferCount = 0
  <2>1. txie' = 0 /\ replies' = replies
      BY <1>1, <1>3 DEF Transmit, TransmitByte, vMBPortSerialEnable
  <2>2. \A f : IsAnswered(f)' <=> IsAnswered(f)
      BY <2>1, Zenon DEF IsAnswered
  <2>3. \A f : Unanswered(f)' <=> Unanswered(f)
      BY <1>1, <2>2, Zenon DEF Unanswered, IsExecuted
  <2>4. OwedInv'
      BY <1>1, <1>3, <2>1, <2>3 DEF OwedInv, Owed, Long, Composing
  <2>5. QED BY <2>2, <2>4
<1>4. CASE usSndBufferCount # 0
  <2> DEFINE q == Len(replies)
  <2>1. /\ pucSndBufferCur \in Nat /\ usSndBufferCount \in Nat /\ usSndBufferCount >= 1
        /\ pucSndBufferCur' = pucSndBufferCur + 1 /\ usSndBufferCount' = usSndBufferCount - 1
        /\ replies' = [replies EXCEPT ![q] = Append(@, ucRTUBuf[pucSndBufferCur])]
        /\ txie' = 1
      BY <1>1, <1>4 DEF Transmit, TransmitByte, LinkInv, TypeOK, TransmitterOK
  <2>2. PICK n \in ReplyLength :
          /\ pucSndBufferCur + usSndBufferCount = n + 3 /\ q > 0
          /\ replies[q] = SubSeq(Reply(request, n), 1, pucSndBufferCur)
      BY <1>1 DEF Answering, OnTheWay
  <2>3. PICK m \in ReplyLength :
          /\ pucSndBufferCur' + usSndBufferCount' = m + 3
          /\ replies'[Len(replies')] = SubSeq(Reply(request', m), 1, pucSndBufferCur')
      BY <2>1 DEF Answering, OnTheWay
  <2>4. n = m /\ n \in Nat /\ n > 0 /\ pucSndBufferCur + 1 <= n + 3
    <3>1. n \in Nat /\ m \in Nat
        BY ReplyLengths
    <3>2. pucSndBufferCur + usSndBufferCount > 3
        BY <1>1 DEF OwedInv, Long
    <3>3. QED BY <2>1, <2>2, <2>3, <3>1, <3>2
  <2>5. /\ q \in Nat /\ DOMAIN replies = 1..q /\ DOMAIN replies' = 1..q /\ Len(replies') = q
        /\ \A k \in 1..q : k # q => replies'[k] = replies[k]
    <3>1. replies \in Seq(Transmitted)
        BY DEF Answering, Counted
    <3>2. q \in Nat /\ DOMAIN replies = 1..q
        BY <3>1
    <3>3. /\ DOMAIN replies' = DOMAIN replies
          /\ \A k \in 1..q : k # q => replies'[k] = replies[k]
        BY <2>1, <3>2
    <3>4. replies' \in Seq(Transmitted')
        BY DEF Answering, Counted
    <3>5. Len(replies') = q
      <4>1. Len(replies') \in Nat /\ DOMAIN replies' = 1..Len(replies')
          BY <3>4
      <4>2. 1..q = 1..Len(replies')
          BY <3>2, <3>3, <4>1, Zenon
      <4>3. QED BY <3>2, <4>1, <4>2, SameInterval, Zenon
    <3>6. QED BY <3>2, <3>3, <3>5
  <2>6. replies'[q] = SubSeq(Reply(FramePdu(last), n), 1, pucSndBufferCur + 1)
      BY <1>1, <1>2, <2>1, <2>3, <2>4, <2>5
  <2>7. replies[q] = SubSeq(Reply(FramePdu(last), n), 1, pucSndBufferCur)
      BY <1>2, <2>2
  <2> HIDE DEF q
  \* Only the transmission under way changes.
  <2>8. ASSUME NEW f \in Frame, f # last PROVE IsAnswered(f)' <=> IsAnswered(f)
    <3>1. ~(FramePdu(last) = FramePdu(f))
        BY <1>2, <2>8, PduTellsFrame
    <3>2. ASSUME NEW l \in ReplyLength \ {0}
          PROVE  replies[q] # Reply(FramePdu(f), l) /\ replies'[q] # Reply(FramePdu(f), l)
      <4>1. l \in Nat /\ l # 0
          BY ReplyLengths
      <4>2. pucSndBufferCur <= n + 3 /\ pucSndBufferCur + 1 \in Nat
          BY <2>1, <2>4
      <4>3. replies[q] # Reply(FramePdu(f), l)
        <5>1. SUFFICES ASSUME SubSeq(Reply(FramePdu(last), n), 1, pucSndBufferCur)
                                = Reply(FramePdu(f), l)
                       PROVE  FALSE
            BY <2>7
        <5>2. QED BY <2>1, <2>4, <3>1, <4>1, <4>2, <5>1, ReplyTells, Zenon
      <4>4. replies'[q] # Reply(FramePdu(f), l)
        <5>1. SUFFICES ASSUME SubSeq(Reply(FramePdu(last), n), 1, pucSndBufferCur + 1)
                                = Reply(FramePdu(f), l)
                       PROVE  FALSE
            BY <2>6
        <5>2. QED BY <2>4, <3>1, <4>1, <4>2, <5>1, ReplyTells, Zenon
      <4>5. QED BY <4>3, <4>4
    <3>3. QED BY <2>5, <3>2 DEF IsAnswered
  <2>9. Unanswered(last)
      BY <1>1, <1>2, <1>4 DEF OwedInv, Owed
  <2>10. IsAnswered(last)' <=> usSndBufferCount' = 0
    <3>1. ASSUME usSndBufferCount' = 0
          PROVE  \E k \in DOMAIN replies', l \in ReplyLength \ {0} :
                   Len(replies'[k]) = l + 3 /\ replies'[k] = Reply(FramePdu(last), l)
      <4>1. pucSndBufferCur + 1 = n + 3
          BY <2>1, <2>2, <2>4, <3>1
      <4>2. PICK S : Reply(FramePdu(last), n) \in Seq(S)
          BY <2>4, ReplyByte
      <4>3. Len(Reply(FramePdu(last), n)) = n + 3
          BY <2>4, ReplyByte
      <4>4. replies'[q] = Reply(FramePdu(last), n)
          BY <2>6, <4>1, <4>2, <4>3, SubSeqFull
      <4>5. q \in DOMAIN replies' /\ n \in ReplyLength \ {0}
          BY <2>2, <2>4, <2>5 DEF q
      <4>6. QED BY <4>3, <4>4, <4>5
    <3>2. ASSUME NEW k \in DOMAIN replies', NEW l \in ReplyLength \ {0},
                 Len(replies'[k]) = l + 3, replies'[k] = Reply(FramePdu(last), l)
          PROVE  usSndBufferCount' = 0
      <4>1. k = q
        <5>1. SUFFICES ASSUME k # q PROVE FALSE
            OBVIOUS
        <5>2. k \in DOMAIN replies /\ replies[k] = replies'[k]
            BY <2>5, <5>1
        <5>3. IsAnswered(last)
            BY <3>2, <5>2 DEF IsAnswered
        <5>4. QED BY <2>9, <5>3 DEF Unanswered
      <4>2. l \in Nat /\ l # 0 /\ pucSndBufferCur + 1 \in Nat
          BY <2>1, ReplyLengths
      <4>3. SubSeq(Reply(FramePdu(last), n), 1, pucSndBufferCur + 1) = Reply(FramePdu(last), l)
          BY <2>6, <3>2, <4>1
      <4>4. pucSndBufferCur + 1 = n + 3
          BY <2>4, <4>2, <4>3, ReplyTells, Zenon
      <4>5. QED BY <2>1, <2>2, <2>4, <4>4
    <3>3. QED BY <1>1, <3>1, <3>2 DEF IsAnswered
  <2>11. Owed'
    <3>1. \A f : IsExecuted(f)' <=> IsExecuted(f)
        BY <1>1, Zenon DEF IsExecuted
    <3>2. ASSUME NEW f \in Frame, f # last PROVE ~Unanswered(f)'
        BY <2>8, <3>1, <3>2 DEF Unanswered, OwedInv, Owed
    <3>3. Unanswered(last)' <=> usSndBufferCount' # 0
        BY <1>1, <2>9, <2>10, <3>1 DEF Unanswered
    <3>4. QED BY <1>1, <1>2, <2>1, <3>2, <3>3 DEF Owed, Composing
  <2>12. Long'
      BY <1>1, <2>1, <2>2, <2>4 DEF Long
  <2>13. \/ \A f \in Frame : IsAnswered(f)' <=> IsAnswered(f)
         \/ \A f \in Frame : IsAnswered(f)' <=> IsAnswered(f) \/ f = last
    <3>1. ~IsAnswered(last)
        BY <2>9 DEF Unanswered
    <3>2. QED BY <2>8, <3>1
  <2>14. QED BY <1>2, <2>9, <2>11, <2>12, <2>13 DEF OwedInv
<1>5. QED BY <1>3, <1>4

LEMMA OwedStep ==
    ASSUME Timely, LinkInv, Answering, Answering', OwedInv, [RestingNext]_remoteVars
    PROVE  OwedInv'
<1>1. CASE \/ MasterStep \/ (Interrupt /\ ~Transmit) \/ StallTick \/ ModulesStep
           \/ UNCHANGED remoteVars
  <2>1. \/ UNCHANGED <<executed, replies, poll, txie, last, request, ucRcvAddress, usLength,
                       ucRTUBuf, sndVars>>
        \/ ~ToAnswer /\ ~ToAnswer' /\ UNCHANGED <<executed, replies>>
      BY <1>1, LineLeavesAnswer DEF Interrupt
  <2>2. QED BY <2>1, OwedKept
<1>2. CASE Transmit
    BY <1>2, TransmitOwes
<1>3. CASE StackStep
  <2>1. CASE RunHandler
      BY <2>1, HandlerOwes
  <2>2. CASE SendReply
      BY <2>2, SendOwes
  <2>3. CASE OtherPoll
    <3>1. UNCHANGED <<masterVars, timeVars, history>>
        BY <2>3 DEF OtherPoll
    <3>2. CASE BuildReply
        BY <3>1, <3>2, BuildOwes
    <3>3. CASE GetEvent \/ ClearQueue \/ Receive \/ PostExecute
        BY <3>1, <3>3, NothingAnsweredYet, OwedKept
    <3>4. QED BY <2>3, <3>2, <3>3 DEF OtherPoll
  <2>4. QED BY <1>3, <2>1, <2>2, <2>3 DEF StackStep
<1>4. QED BY <1>1, <1>2, <1>3 DEF RestingNext, Interrupt

(* ------------------------------ the service -------------------------------------------- *)

\* Nothing has happened for the service.
LEMMA ServiceStutters ==
    ASSUME \A f \in Frame : (IsExecuted(f)' <=> IsExecuted(f)) /\ (IsAnswered(f)' <=> IsAnswered(f)),
           \A f \in Frame : FrameAddress[f] # "other" => (f \in delivered' <=> f \in delivered)
    PROVE  UNCHANGED Service!serviceVars
<1>1. {f \in Frame : Outstanding(f)}' = {f \in Frame : Outstanding(f)}
    BY DEF Outstanding
<1>2. {f \in Frame : Unanswered(f)}' = {f \in Frame : Unanswered(f)}
    BY DEF Unanswered
<1>3. {f \in Frame : IsExecuted(f) /\ ~Unanswered(f)}'
        = {f \in Frame : IsExecuted(f) /\ ~Unanswered(f)}
    BY DEF Unanswered
<1>4. QED BY <1>1, <1>2, <1>3 DEF Service!serviceVars

\* A frame for this slave, sent to the end, is a request.
LEMMA RequestServed ==
    ASSUME Timely, LinkInv, SettingInv, HearInv, OwedInv, MasterStep,
           ContinueFrame(CharTicks[MasterRate], uart = MasterRate)
    PROVE  [Service!Next]_(Service!serviceVars)
<1>1. /\ last \notin delivered /\ last \in Frame
      /\ delivered' \in {delivered, delivered \cup {last}}
      /\ UNCHANGED history /\ Receiving
    BY HearContinue
<1>2. \A f : (IsExecuted(f)' <=> IsExecuted(f)) /\ (IsAnswered(f)' <=> IsAnswered(f))
    BY <1>1, Zenon DEF history, IsExecuted, IsAnswered
<1>3. CASE delivered' = delivered \/ FrameAddress[last] = "other"
    BY <1>1, <1>2, <1>3, ServiceStutters
<1>4. CASE delivered' = delivered \cup {last} /\ FrameAddress[last] # "other"
  <2>1. {f \in Frame : Outstanding(f)} = {}
      BY <1>1 DEF HearInv, Owing, Outstanding
  <2>2. ~IsExecuted(last)
      BY <1>1 DEF LinkInv, JobInv, InFrame, HasFrame
  <2>3. {f \in Frame : Unanswered(f)} = {}
      BY <1>1 DEF OwedInv, Owed, Composing, LinkInv, JobInv, OneJob, EventPending
  <2>4. {f \in Frame : Outstanding(f)}' = {last}
    <3>1. ASSUME NEW f \in Frame PROVE Outstanding(f)' <=> f = last
      <4>1. ~Outstanding(f)
          BY <2>1
      <4>2. QED BY <1>1, <1>2, <1>4, <2>2, <4>1 DEF Outstanding
    <3>2. QED BY <1>1, <3>1
  <2>5. {f \in Frame : Unanswered(f)}' = {f \in Frame : Unanswered(f)}
      BY <1>2 DEF Unanswered
  <2>6. {f \in Frame : IsExecuted(f) /\ ~Unanswered(f)}'
          = {f \in Frame : IsExecuted(f) /\ ~Unanswered(f)}
      BY <1>2 DEF Unanswered
  <2>7. last \notin {f \in Frame : IsExecuted(f) /\ ~Unanswered(f)}
      BY <2>2
  <2>8. Service!Request(last)
      BY <1>4, <2>1, <2>3, <2>4, <2>5, <2>6, <2>7 DEF Service!Request
  <2>9. QED BY <1>1, <2>8 DEF Service!Next
<1>5. QED BY <1>1, <1>3, <1>4

\* The handler is the execution of the one request there is.
LEMMA ExecutionServed ==
    ASSUME Timely, LinkInv, Answering, HearInv, OwedInv, OwedInv', RunHandler
    PROVE  [Service!Next]_(Service!serviceVars)
<1>1. /\ last \in Frame /\ last \in delivered /\ ~IsExecuted(last) /\ FrameAddress[last] # "other"
      /\ last' = last /\ delivered' = delivered /\ replies' = replies
    BY Handled DEF RunHandler, masterVars
<1>2. poll = "execute" /\ poll' = "reply" /\ txie = 0
  <2>1. EventPending /\ poll = "execute"
      BY DEF RunHandler, Execute, EventPending
  <2>2. QED BY <2>1, AtWork DEF RunHandler, Execute
<1>3. \A f \in Frame : IsExecuted(f)' <=> IsExecuted(f) \/ f = last
    BY HandlerExecutes DEF ExecutedFrames
<1>4. {f \in Frame : Outstanding(f)} = {last}
    BY <1>1 DEF HearInv, Owing, Outstanding
<1>5. {f \in Frame : Outstanding(f)}' = {}
  <2>1. ASSUME NEW f \in Frame PROVE ~Outstanding(f)'
    <3>1. Outstanding(f) => f = last
        BY <1>4
    <3>2. QED BY <1>1, <1>3, <3>1 DEF Outstanding
  <2>2. QED BY <2>1
<1>6. \A f \in Frame : ~Unanswered(f)
    BY <1>2 DEF OwedInv, Owed, Composing
<1>7. \A f \in Frame : Unanswered(f)' <=> f = last /\ FrameAddress[f] = "us"
    BY <1>1, <1>2 DEF OwedInv, Owed, Composing
<1>8. CASE FrameAddress[last] = "us"
  <2>1. {f \in Frame : Unanswered(f)}' = {last}
      BY <1>1, <1>7, <1>8
  <2>2. {f \in Frame : IsExecuted(f) /\ ~Unanswered(f)}'
          = {f \in Frame : IsExecuted(f) /\ ~Unanswered(f)}
      BY <1>1, <1>3, <1>6, <1>7, <1>8
  <2>3. Service!Execute(last)
      BY <1>4, <1>5, <1>8, <2>1, <2>2 DEF Service!Execute
  <2>4. QED BY <1>1, <2>3 DEF Service!Next, Service!Serve
<1>9. CASE FrameAddress[last] # "us"
  <2>1. {f \in Frame : Unanswered(f)}' = {f \in Frame : Unanswered(f)}
      BY <1>6, <1>7, <1>9
  <2>2. {f \in Frame : IsExecuted(f) /\ ~Unanswered(f)}'
          = {f \in Frame : IsExecuted(f) /\ ~Unanswered(f)} \cup {last}
      BY <1>1, <1>3, <1>6, <1>7, <1>9
  <2>3. Service!Execute(last)
      BY <1>4, <1>5, <1>9, <2>1, <2>2 DEF Service!Execute
  <2>4. QED BY <1>1, <2>3 DEF Service!Next, Service!Serve
<1>10. QED BY <1>8, <1>9

\* The last byte of the reply is the answer.
LEMMA AnswerServed ==
    ASSUME Timely, LinkInv, Answering, Answering', OwedInv, Transmit
    PROVE  [Service!Next]_(Service!serviceVars)
<1>1. UNCHANGED <<executed, delivered>>
    BY DEF Transmit, masterVars
<1>2. \A f : IsExecuted(f)' <=> IsExecuted(f)
    BY <1>1, Zenon DEF IsExecuted
<1>3. CASE \A f \in Frame : IsAnswered(f)' <=> IsAnswered(f)
    BY <1>1, <1>2, <1>3, ServiceStutters
<1>4. CASE /\ last \in Frame /\ Unanswered(last)
           /\ \A f \in Frame : IsAnswered(f)' <=> IsAnswered(f) \/ f = last
  <2>1. {f \in Frame : Unanswered(f)} = {last}
      BY <1>4 DEF OwedInv, Owed
  <2>2. {f \in Frame : Unanswered(f)}' = {}
    <3>1. ASSUME NEW f \in Frame PROVE ~Unanswered(f)'
      <4>1. Unanswered(f) => f = last
          BY <2>1
      <4>2. QED BY <1>2, <1>4, <4>1 DEF Unanswered
    <3>2. QED BY <3>1
  <2>3. {f \in Frame : Outstanding(f)}' = {f \in Frame : Outstanding(f)}
      BY <1>1, <1>2 DEF Outstanding
  <2>4. {f \in Frame : IsExecuted(f) /\ ~Unanswered(f)}'
          = {f \in Frame : IsExecuted(f) /\ ~Unanswered(f)} \cup {last}
    <3>1. ASSUME NEW f \in Frame
          PROVE  (IsExecuted(f) /\ ~Unanswered(f))' <=> (IsExecuted(f) /\ ~Unanswered(f)) \/ f = last
      <4>1. Unanswered(f) => f = last
          BY <2>1
      <4>2. ~Unanswered(f)'
          BY <2>2
      <4>3. IsExecuted(last)
          BY <1>4 DEF Unanswered
      <4>4. QED BY <1>2, <4>1, <4>2, <4>3
    <3>2. QED BY <1>4, <3>1
  <2>5. Service!Answer(last)
      BY <2>1, <2>2, <2>3, <2>4 DEF Service!Answer
  <2>6. QED BY <1>4, <2>5 DEF Service!Next, Service!Serve
<1>5. QED BY <1>3, <1>4, TransmitOwes

LEMMA ServiceStep ==
    ASSUME Timely, LinkInv, Answering, Answering', SettingInv, HearInv, OwedInv, OwedInv',
           [RestingNext]_remoteVars
    PROVE  [Service!Next]_(Service!serviceVars)
<1>1. ASSUME UNCHANGED <<delivered, executed, replies>>
      PROVE  [Service!Next]_(Service!serviceVars)
  <2>1. \A f : (IsExecuted(f)' <=> IsExecuted(f)) /\ (IsAnswered(f)' <=> IsAnswered(f))
      BY <1>1, Zenon DEF IsExecuted, IsAnswered
  <2>2. QED BY <1>1, <2>1, ServiceStutters
<1>2. CASE MasterStep
  <2>1. CASE ContinueFrame(CharTicks[MasterRate], uart = MasterRate)
      BY <1>2, <2>1, RequestServed
  <2>2. CASE BreakFrame
      BY <1>1, <2>2 DEF BreakFrame, history
  <2>3. CASE \E f \in Frame : BeginFrame(f, uart = MasterRate)
    <3>1. PICK f \in Frame : BeginFrame(f, uart = MasterRate)
        BY <2>3
    <3>2. FrameLength[f] # 1
        BY Lengths
    <3>3. UNCHANGED <<delivered, executed, replies>>
        BY <3>1, <3>2 DEF BeginFrame, PutByte, history
    <3>4. QED BY <1>1, <3>3
  <2>4. QED BY <1>2, <2>1, <2>2, <2>3 DEF MasterStep, Master
<1>3. CASE Transmit
    BY <1>3, AnswerServed
<1>4. CASE \/ (Interrupt /\ ~Transmit) \/ StallTick \/ ModulesStep \/ UNCHANGED remoteVars
    BY <1>1, <1>4 DEF Interrupt, Tick, Tim2, ReceiveIsr, StallTick, ModulesStep, remoteVars, linkVars,
                      history, masterVars
<1>5. CASE StackStep
  <2>1. CASE RunHandler
      BY <2>1, ExecutionServed
  <2>2. CASE SendReply
    <3>1. \A f : (IsAnswered(f)' <=> IsAnswered(f))
        BY <2>2, SendOwes
    <3>2. UNCHANGED <<delivered, executed>>
        BY <2>2 DEF SendReply, masterVars
    <3>3. \A f : IsExecuted(f)' <=> IsExecuted(f)
        BY <3>2, Zenon DEF IsExecuted
    <3>4. QED BY <3>1, <3>2, <3>3, ServiceStutters
  <2>3. CASE OtherPoll
      BY <1>1, <2>3 DEF OtherPoll, history, masterVars
  <2>4. QED BY <1>5, <2>1, <2>2, <2>3 DEF StackStep
<1>6. QED BY <1>2, <1>3, <1>4, <1>5 DEF RestingNext, Interrupt

LEMMA ServiceInit ==
    ASSUME RemoteInit
    PROVE  HearInv /\ OwedInv /\ Service!Init
<1>1. /\ executed = <<>> /\ replies = <<>> /\ delivered = {} /\ current = 0
      /\ poll = "get" /\ txie = 0 /\ isr = "none" /\ rdr = <<>> /\ xEventInQueue = 0
      /\ eRcvState = "RX_INIT" /\ _baudrate = Settings!NoBaudrate
    BY DEF RemoteInit, LinkInit, Init, Settings!Init, StartState
<1>2. \A f : ~IsExecuted(f) /\ ~Outstanding(f) /\ ~Unanswered(f)
    BY <1>1 DEF IsExecuted, Outstanding, Unanswered
<1>3. HearInv
  <2>1. ~HasFrame
      BY <1>1 DEF HasFrame, Receiving, HasByte, FrameEvent
  <2>2. QED BY <1>1, <1>2, <2>1, RatesApart DEF HearInv, Undisturbed, Owing, InTune
<1>4. OwedInv
    BY <1>1, <1>2 DEF OwedInv, Owed, Long, Composing
<1>5. QED BY <1>2, <1>3, <1>4 DEF Service!Init

\* What the master sees is the abstract service of RequestService, step by step: a frame for
\* this slave becomes a request, which is executed once and before the next one; a unicast
\* request is then answered, a broadcast is finished with.  No request is lost between the
\* receiver, the event queue and the handler, though the rate may change between two frames
\* (mb.c:333-414, mbrtu.c:150-355).  That the service goes on is left to the run.
THEOREM RemoteImplementsService ==
    Timely /\ RemoteSpec => Service!Init /\ [][Service!Next]_(Service!serviceVars)
<1> SUFFICES ASSUME Timely
             PROVE  RemoteSpec => Service!Init /\ [][Service!Next]_(Service!serviceVars)
    OBVIOUS
<1>1. RemoteInit => HearInv /\ OwedInv /\ Service!Init
    BY ServiceInit
<1>2. LinkInv /\ SettingInv /\ HearInv /\ [RestingNext]_remoteVars => HearInv'
    BY HearStep
<1>3. LinkInv /\ Answering /\ Answering' /\ OwedInv /\ [RestingNext]_remoteVars => OwedInv'
    BY OwedStep
<1>4. /\ LinkInv /\ Answering /\ Answering' /\ SettingInv /\ HearInv /\ OwedInv /\ OwedInv'
      /\ [RestingNext]_remoteVars
      => [Service!Next]_(Service!serviceVars)
    BY ServiceStep
<1>5. QED BY <1>1, <1>2, <1>3, <1>4, SettingInvariant, NoIdlePoll, PTL DEF RemoteSpec
==============================================================================
