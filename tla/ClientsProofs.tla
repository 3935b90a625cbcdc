----------------------------- MODULE ClientsProofs -----------------------------
(* The connection of the producer, for any number of sends and disconnects;    *)
(* what mails are rendered with, what retries leave of containers, which       *)
(* environment a tear-down closes and how an application is configured, for    *)
(* any mails, partials, instances, attempts, set-ups, models and topics.       *)
EXTENDS Clients, FiniteSetTheorems, WellFoundedInduction, TLAPS

ProducerInv == TypeOK /\ ReusedIsUp /\ KnownUnlessOverlapped /\ PendingOK

LEMMA ProducerInit == Init => ProducerInv
  BY ProducerAssumption
     DEF Init, ProducerInv, TypeOK, ReusedIsUp, KnownUnlessOverlapped, PendingOK, Pending, Closing

LEMMA ProducerStep == ProducerInv /\ [Next]_vars => ProducerInv'
<1> SUFFICES ASSUME ProducerInv, [Next]_vars PROVE ProducerInv'
  OBVIOUS
<1> USE ProducerAssumption DEF ProducerInv
<1>1. ASSUME NEW s \in Sends, Connect(s) PROVE ProducerInv'
  <2>1. CASE connection = None
    <3>1. TypeOK'
      BY <1>1, <2>1 DEF Connect, TypeOK
    <3>2. ReusedIsUp' /\ KnownUnlessOverlapped'
      BY <1>1, <2>1 DEF Connect, TypeOK, ReusedIsUp, KnownUnlessOverlapped
    <3>3. PendingOK'
      <4>1. /\ promise' = [promise EXCEPT ![s] = "pending"] /\ connection' = s
            /\ overlapped' = (overlapped \/ Closing # {})
            /\ UNCHANGED <<status, closing>>
        BY <1>1, <2>1 DEF Connect
      <4>2. (\A d \in Disconnects : closing'[d] = "idle") => ~overlapped'
        BY <4>1 DEF PendingOK, Closing
      <4>3. ASSUME ~overlapped' PROVE Pending' = {s} /\ Closing' = {} /\ status' # "connected"
        <5>1. ~overlapped /\ Closing = {} /\ Closing' = Closing
          BY <4>1, <4>3 DEF Closing
        <5>2. Pending = {}
          BY <2>1, <5>1 DEF PendingOK, Pending
        <5>3. Pending' = {s}
          BY <4>1, <5>2 DEF Pending, TypeOK
        <5>4. QED
          BY <2>1, <4>1, <5>1, <5>3 DEF KnownUnlessOverlapped
      <4>4. QED
        BY <4>1, <4>2, <4>3 DEF PendingOK
    <3>4. QED
      BY <3>1, <3>2, <3>3
  <2>2. CASE connection # None
    <3>1. TypeOK'
      BY <1>1, <2>2 DEF Connect, TypeOK, ReusedIsUp
    <3>2. QED
      BY <1>1, <2>2, <3>1 DEF Connect, ReusedIsUp, KnownUnlessOverlapped, PendingOK, Pending, Closing
  <2>3. QED
    BY <2>1, <2>2
<1>2. ASSUME NEW s \in Sends, ConnectSucceeds(s) PROVE ProducerInv'
  <2>1. TypeOK' /\ ReusedIsUp'
    BY <1>2 DEF ConnectSucceeds, TypeOK, ReusedIsUp
  <2>2. KnownUnlessOverlapped' /\ PendingOK'
    BY <1>2 DEF ConnectSucceeds, TypeOK, KnownUnlessOverlapped, PendingOK, Pending, Closing
  <2>3. QED
    BY <2>1, <2>2
<1>3. ASSUME NEW s \in Sends, ConnectFails(s) PROVE ProducerInv'
  <2>1. TypeOK' /\ ReusedIsUp'
    BY <1>3 DEF ConnectFails, TypeOK, ReusedIsUp
  <2>2. KnownUnlessOverlapped' /\ PendingOK'
    BY <1>3 DEF ConnectFails, TypeOK, KnownUnlessOverlapped, PendingOK, Pending, Closing
  <2>3. QED
    BY <2>1, <2>2
<1>4. ASSUME NEW s \in Sends, Serialize(s) \/ Send(s) \/ Settle(s) PROVE ProducerInv'
  <2>1. TypeOK'
    BY <1>4 DEF Serialize, Send, Settle, TypeOK
  <2>2. QED
    BY <1>4, <2>1
       DEF Serialize, Send, Settle, ReusedIsUp, KnownUnlessOverlapped, PendingOK, Pending, Closing
<1>5. ASSUME NEW d \in Disconnects, Disconnect(d) PROVE ProducerInv'
  <2>1. TypeOK' /\ ReusedIsUp'
    BY <1>5 DEF Disconnect, TypeOK, ReusedIsUp
  <2>2. KnownUnlessOverlapped' /\ PendingOK'
    BY <1>5 DEF Disconnect, TypeOK, KnownUnlessOverlapped, PendingOK, Pending, Closing
  <2>3. QED
    BY <2>1, <2>2
<1>6. ASSUME NEW d \in Disconnects, Disconnected(d) \/ DisconnectFails(d) PROVE ProducerInv'
  <2>1. TypeOK' /\ ReusedIsUp'
    BY <1>6 DEF Disconnected, DisconnectFails, TypeOK, ReusedIsUp
  <2>2. KnownUnlessOverlapped' /\ PendingOK'
    BY <1>6
       DEF Disconnected, DisconnectFails, TypeOK, KnownUnlessOverlapped, PendingOK, Pending, Closing
  <2>3. QED
    BY <2>1, <2>2
<1>7. CASE UNCHANGED vars
  BY <1>7 DEF vars, TypeOK, ReusedIsUp, KnownUnlessOverlapped, PendingOK, Pending, Closing
<1>8. QED
  BY <1>1, <1>2, <1>3, <1>4, <1>5, <1>6, <1>7 DEF Next

LEMMA ProducerSafe == Spec => []ProducerInv
  BY ProducerInit, ProducerStep, PTL DEF Spec

\* Types; and a send always awaits a promise that some connect has made.
THEOREM TypeCorrect == Spec => []TypeOK
<1>1. ProducerInv => TypeOK
  BY DEF ProducerInv
<1>2. QED
  BY <1>1, ProducerSafe, PTL

\* A connection that a send reuses is up or on its way, whatever failed or
\* disconnected meanwhile.
THEOREM ReusedIsUpSafe == Spec => []ReusedIsUp
<1>1. ProducerInv => ReusedIsUp
  BY DEF ProducerInv
<1>2. QED
  BY <1>1, ProducerSafe, PTL

\* As long as no connect and disconnect have overlapped, the service knows when the
\* producer is connected, and the next disconnect closes it.
THEOREM KnownUnlessOverlappedSafe == Spec => []KnownUnlessOverlapped
<1>1. ProducerInv => KnownUnlessOverlapped
  BY DEF ProducerInv
<1>2. QED
  BY <1>1, ProducerSafe, PTL

\* Concurrent sends share one connect, until somebody disconnects.
THEOREM ConnectSharedSafe == Spec => []ConnectShared
<1>1. ProducerInv => ConnectShared
  <2>1. SUFFICES ASSUME ProducerInv, \A d \in Disconnects : closing[d] = "idle"
                 PROVE  Cardinality(Pending) <= 1
    BY DEF ConnectShared
  <2>2. \A s \in Pending : connection = s
    BY <2>1 DEF ProducerInv, PendingOK
  <2>3. CASE Pending = {}
    BY <2>3, FS_EmptySet
  <2>4. CASE Pending # {}
    <3>1. Pending = {connection}
      BY <2>2, <2>4
    <3>2. QED
      BY <3>1, FS_Singleton
  <2>5. QED
    BY <2>3, <2>4
<1>2. QED
  BY <1>1, ProducerSafe, PTL

\* A behaviour of the sum is one of the producer, whichever part it is of: what is
\* proved of KafkaProducer holds of Clients.
THEOREM SumIsProducer == SumSpec => Spec
<1>1. SumInit => Init
  BY DEF SumInit
<1>2. [SumNext]_sumVars => [Next]_vars
  BY DEF SumNext, sumVars, producerVars
<1>3. QED
  BY <1>1, <1>2, PTL DEF SumSpec, Spec

--------------------------------------------------------------------------------
(* Mailer.                                                                     *)

\* A set of positions has a last one.
LEMMA SomeLast ==
  ASSUME NEW n \in Nat, NEW S \in SUBSET (1..n), S # {}
  PROVE  \E x \in S : \A y \in S : x >= y
<1> DEFINE T == {n - s : s \in S}
           R == {ss \in Nat \X Nat : ss[1] < ss[2]}
<1>1. T \subseteq Nat
  OBVIOUS
<1>2. T # {}
  OBVIOUS
<1>3. IsWellFoundedOn(R, Nat)
  BY NatLessThanWellFounded DEF OpToRel
<1>4. \A a, b \in Nat : a < b => <<a, b>> \in R
  OBVIOUS
<1> HIDE DEF T, R
<1>5. PICK t \in T : \A u \in T : <<u, t>> \notin R
  BY <1>1, <1>2, <1>3, WFMin
<1>6. \A u \in T : ~(u < t)
  BY <1>1, <1>4, <1>5
<1>7. PICK x \in S : t = n - x
  BY DEF T
<1>8. \A y \in S : ~(n - y < n - x)
  BY <1>6, <1>7 DEF T
<1>9. QED
  BY <1>8

TopLevel(file) == file[1] = ""
Named == {Partials[i][2] : i \in 1..Len(Partials)}

LEMMA PartialsTyped ==
  /\ Len(Partials) \in Nat
  /\ \A i \in 1..Len(Partials) : Partials[i] \in Mail!Files
  /\ \A file \in Mail!Files : \E i \in 1..Len(Partials) : file = Partials[i]
  BY ClientsAssumption DEF Mail!Files, Mail!ToSet

\* Each basename is of the last file that has it.
LEMMA BasenamesOfFiles ==
  ASSUME NEW n \in 0..Len(Partials)
  PROVE  /\ DOMAIN Mail!Basenames(n) = {Partials[i][2] : i \in 1..n}
         /\ \A base \in DOMAIN Mail!Basenames(n) :
                Mail!Basenames(n)[base] \in Mail!Files /\ Mail!Basenames(n)[base][2] = base
<1>1. DOMAIN Mail!Basenames(n) = {Partials[i][2] : i \in 1..n}
  BY DEF Mail!Basenames
<1>2. ASSUME NEW base \in {Partials[i][2] : i \in 1..n}
      PROVE  Mail!Basenames(n)[base] \in Mail!Files /\ Mail!Basenames(n)[base][2] = base
  <2> DEFINE S == {i \in 1..n : Partials[i][2] = base}
             last == CHOOSE x \in S : \A y \in S : x >= y
  <2>1. S \in SUBSET (1..n) /\ S # {} /\ n \in Nat
    BY <1>2, PartialsTyped
  <2>2. last \in S
    <3> HIDE DEF S
    <3>1. QED
      BY <2>1, SomeLast
  <2>3. Mail!Basenames(n)[base] = Partials[last]
    BY <1>2, <2>1 DEF Mail!Basenames, Mail!SelectLastInSubSeq, Mail!Max
  <2>4. QED
    BY <2>2, <2>3, PartialsTyped
<1>3. QED
  BY <1>1, <1>2


LEMMA RegisterLeaves ==
  ASSUME NEW n \in 0..Len(Partials), NEW g \in 0..Len(Partials), Mail!Register(n, g)
  PROVE  /\ DOMAIN partials' = DOMAIN Mail!Basenames(n) \cup DOMAIN partials
         /\ \A base \in DOMAIN partials' :
                partials'[base] = IF base \in DOMAIN Mail!Basenames(n) THEN Mail!Basenames(n)[base] ELSE partials[base]
         /\ DOMAIN global' = {Partials[i] : i \in 1..g} \cup DOMAIN global
         /\ registered' = (g = Len(Partials))
<1> DEFINE b == Mail!Basenames(n)
           p == Mail!Paths(g)
<1>1. /\ partials' = [x \in DOMAIN partials \cup DOMAIN b |-> IF x \in DOMAIN b THEN b[x] ELSE partials[x]]
      /\ global' = [x \in DOMAIN global \cup DOMAIN p |-> IF x \in DOMAIN p THEN p[x] ELSE global[x]]
      /\ registered' = (g = Len(Partials))
  BY DEF Mail!Register, Mail!Updated
<1>2. DOMAIN p = {Partials[i] : i \in 1..g}
  BY DEF Mail!Paths
<1> HIDE DEF b, p
<1>3. QED
  BY <1>1, <1>2 DEF b

\* What is registered under a basename is a file of that basename, and if the flag
\* is set everything is registered.
PartialsOK ==
    /\ \A base \in DOMAIN partials : partials[base] \in Mail!Files /\ partials[base][2] = base
    /\ registered => Named \subseteq DOMAIN partials /\ Mail!Files \subseteq DOMAIN global

\* How a mail may see a file.
Right(file, at) ==
    \/ at = {file}
    \/ TopLevel(file) /\ \E other \in Mail!Files \ {file} : other[2] = file[2] /\ at = {other}

MailOK ==
    /\ mail = [m \in Mails |-> mail[m]] /\ seen = [m \in Mails |-> seen[m]]
    /\ PartialsOK
    /\ \A m \in Mails :
        mail[m] = "rendered" /\ mailOptions.adapter = "handlebars" /\ ~mailOptions.html /\ mailOptions.partials
        => \A file \in Mail!Files : Right(file, seen[m][file])

LEMMA RegisterStep ==
  ASSUME PartialsOK, NEW n \in 0..Len(Partials), NEW g \in {n - 1, n} \cap Nat, Mail!Register(n, g)
  PROVE  PartialsOK'
<1>1. Len(Partials) \in Nat /\ g \in 0..Len(Partials)
  BY PartialsTyped
<1>2. ASSUME NEW base \in DOMAIN partials'
      PROVE  partials'[base] \in Mail!Files /\ partials'[base][2] = base
  <2>1. CASE base \in DOMAIN Mail!Basenames(n)
    <3>1. partials'[base] = Mail!Basenames(n)[base]
      BY <1>1, <2>1, RegisterLeaves
    <3>2. QED
      BY <2>1, <3>1, BasenamesOfFiles
  <2>2. CASE base \notin DOMAIN Mail!Basenames(n)
    <3>1. base \in DOMAIN partials /\ partials'[base] = partials[base]
      BY <1>1, <2>2, RegisterLeaves
    <3>2. QED
      BY <3>1 DEF PartialsOK
  <2>3. QED
    BY <2>1, <2>2
<1>3. ASSUME registered'
      PROVE  Named \subseteq DOMAIN partials' /\ Mail!Files \subseteq DOMAIN global'
  <2>1. g = Len(Partials) /\ n = Len(Partials)
    <3>1. g = Len(Partials)
      BY <1>1, <1>3, RegisterLeaves
    <3>2. QED
      BY <1>1, <3>1
  <2>2. DOMAIN Mail!Basenames(n) = Named
    BY <2>1, BasenamesOfFiles DEF Named
  <2>3. Mail!Files \subseteq {Partials[i] : i \in 1..g}
    BY <2>1, PartialsTyped
  <2>4. QED
    BY <1>1, <2>2, <2>3, RegisterLeaves
<1>4. QED
  BY <1>2, <1>3 DEF PartialsOK

LEMMA ResolvedFile ==
  ASSUME NEW file
  PROVE  IF TopLevel(file) /\ file[2] \in DOMAIN partials'
         THEN Mail!Resolved(file) = {partials'[file[2]]}
         ELSE Mail!Resolved(file) = {g \in DOMAIN global' : g = file}
  BY Zenon DEF Mail!Resolved, TopLevel

LEMMA ResolvedRight ==
  ASSUME PartialsOK', registered', NEW file \in Mail!Files
  PROVE  Right(file, Mail!Resolved(file))
<1>1. file[2] \in DOMAIN partials'
  BY PartialsTyped DEF PartialsOK, Named
<1>2. CASE TopLevel(file)
  <2>1. Mail!Resolved(file) = {partials'[file[2]]}
    BY <1>1, <1>2, ResolvedFile
  <2>2. partials'[file[2]] \in Mail!Files /\ partials'[file[2]][2] = file[2]
    BY <1>1 DEF PartialsOK
  <2>3. QED
    BY <1>2, <2>1, <2>2 DEF Right
<1>3. CASE ~TopLevel(file)
  <2>1. Mail!Resolved(file) = {g \in DOMAIN global' : g = file}
    BY <1>3, ResolvedFile
  <2>2. QED
    BY <2>1 DEF Right, PartialsOK
<1>4. QED
  BY <1>2, <1>3

\* Rendered now, with everything registered, or not rendered, or as before.
LEMMA RenderStep ==
  ASSUME MailOK, NEW m \in Mails, PartialsOK', UNCHANGED mailOptions,
         \/ Mail!Fail(m) /\ UNCHANGED seen
         \/ Mail!Render(m) /\ (mailOptions.partials => registered')
  PROVE  MailOK'
<1> DEFINE given == mailOptions.adapter = "handlebars" /\ ~mailOptions.html /\ mailOptions.partials
<1>1. \/ mail' = [mail EXCEPT ![m] = "failed"] /\ seen' = seen
      \/ /\ mailOptions.partials => registered'
         /\ \E end \in {"rendered", "failed"} : mail' = [mail EXCEPT ![m] = end]
         /\ seen' = [seen EXCEPT ![m] = [file \in Mail!Files |-> Mail!Resolved(file)]]
  BY DEF Mail!Fail, Mail!Render, Mail!ApplyRenderedHtml
<1>2. /\ mail' = [k \in Mails |-> mail'[k]] /\ seen' = [k \in Mails |-> seen'[k]]
      /\ \A k \in Mails \ {m} : mail'[k] = mail[k] /\ seen'[k] = seen[k]
  BY <1>1 DEF MailOK
<1>3. ASSUME NEW k \in Mails, mail'[k] = "rendered", given, NEW file \in Mail!Files
      PROVE  Right(file, seen'[k][file])
  <2>1. CASE k # m
    BY <1>2, <1>3, <2>1 DEF MailOK
  <2>2. CASE k = m
    <3>1. /\ registered'
          /\ seen' = [seen EXCEPT ![m] = [f \in Mail!Files |-> Mail!Resolved(f)]]
      BY <1>1, <1>3, <2>2 DEF MailOK
    <3>2. seen'[k][file] = Mail!Resolved(file)
      BY <2>2, <3>1 DEF MailOK
    <3>3. QED
      BY <3>1, <3>2, ResolvedRight
  <2>3. QED
    BY <2>1, <2>2
<1>4. \A k \in Mails :
        mail'[k] = "rendered" /\ mailOptions'.adapter = "handlebars" /\ ~mailOptions'.html /\ mailOptions'.partials
        => \A file \in Mail!Files : Right(file, seen'[k][file])
  BY <1>3
<1>5. (mail = [k \in Mails |-> mail[k]])' /\ (seen = [k \in Mails |-> seen[k]])'
  BY <1>2
<1>6. (\A k \in Mails :
        mail[k] = "rendered" /\ mailOptions.adapter = "handlebars" /\ ~mailOptions.html /\ mailOptions.partials
        => \A file \in Mail!Files : Right(file, seen[k][file]))'
  BY <1>4 DEF Right
<1>7. QED
  BY <1>5, <1>6 DEF MailOK

LEMMA MailStep == ASSUME MailOK, Mail!Next PROVE MailOK'
<1>1. ASSUME Mail!Construct PROVE MailOK'
  <2>1. UNCHANGED <<mailOptions, partials, registered, global, mail, seen>>
    BY <1>1, Zenon DEF Mail!Construct
  <2>2. QED
    BY <2>1 DEF MailOK, PartialsOK, Right
<1>2. ASSUME NEW m \in Mails, NEW to, Mail!SendMail(m, to) PROVE MailOK'
  <2>1. /\ \E end \in {"compile", "rejected"} : mail' = [mail EXCEPT ![m] = end]
        /\ UNCHANGED <<mailOptions, partials, registered, global, seen>>
    BY <1>2 DEF Mail!SendMail
  <2>2. QED
    BY <2>1 DEF MailOK, PartialsOK, Right
<1>3. ASSUME NEW m \in Mails, Mail!SkipTemplate(m) \/ Mail!PugCompile(m) \/ Mail!EjsCompile(m)
      PROVE  MailOK'
  <2>1. /\ mailOptions.adapter # "handlebars" \/ mailOptions.html
        /\ \E end \in {"rendered", "failed"} : mail' = [mail EXCEPT ![m] = end]
        /\ UNCHANGED <<mailOptions, partials, registered, global, seen>>
    BY <1>3 DEF Mail!SkipTemplate, Mail!PugCompile, Mail!EjsCompile, Mail!RenderFile,
                Mail!Fail, Mail!ApplyRenderedHtml
  <2>2. QED
    BY <2>1 DEF MailOK, PartialsOK, Right
<1>4. ASSUME NEW m \in Mails, NEW template \in Templates, Mail!Compile(m, template)
      PROVE  MailOK'
  <2>1. UNCHANGED mailOptions
    BY <1>4 DEF Mail!Compile
  <2>2. \/ Mail!Fail(m) /\ UNCHANGED <<partials, registered, global, seen>>
        \/ \E n \in 0..Len(Partials) : \E g \in {n - 1, n} \cap Nat :
            /\ Mail!Register(n, g)
            /\ IF g = Len(Partials) THEN Mail!Render(m) ELSE Mail!Fail(m) /\ UNCHANGED seen
        \/ /\ ~mailOptions.partials \/ registered
           /\ UNCHANGED <<partials, registered, global>>
           /\ Mail!Render(m)
    BY <1>4 DEF Mail!Compile
  <2>3. CASE Mail!Fail(m) /\ UNCHANGED <<partials, registered, global, seen>>
    <3>1. PartialsOK'
      BY <2>3 DEF MailOK, PartialsOK
    <3>2. QED
      BY <2>1, <2>3, <3>1, RenderStep
  <2>4. ASSUME NEW n \in 0..Len(Partials), NEW g \in {n - 1, n} \cap Nat, Mail!Register(n, g),
               IF g = Len(Partials) THEN Mail!Render(m) ELSE Mail!Fail(m) /\ UNCHANGED seen
        PROVE  MailOK'
    <3>1. PartialsOK'
      BY <2>4, RegisterStep DEF MailOK
    <3>2. registered' = (g = Len(Partials))
      BY <2>4 DEF Mail!Register
    <3>3. QED
      BY <2>1, <2>4, <3>1, <3>2, RenderStep
  <2>5. CASE /\ ~mailOptions.partials \/ registered
             /\ UNCHANGED <<partials, registered, global>>
             /\ Mail!Render(m)
    <3>1. PartialsOK'
      BY <2>5 DEF MailOK, PartialsOK
    <3>2. QED
      BY <2>1, <2>5, <3>1, RenderStep
  <2>6. QED
    BY <2>2, <2>3, <2>4, <2>5
<1>5. QED
  BY <1>1, <1>2, <1>3, <1>4 DEF Mail!Next

LEMMA MailInit == Mail!Init => MailOK
  BY DEF Mail!Init, Mail!Empty, MailOK, PartialsOK

\* Whichever mails fail half-way through the registration of the partials, a mail
\* that is rendered gets each of them, for any files (HandlebarsAdapter).
THEOREM RenderedWithAllSafe == SumSpec => []RenderedWithAll
<1> DEFINE Inv == part = "mail" => MailOK
<1>1. SumInit => Inv
  BY MailInit DEF SumInit
<1>2. Inv /\ [SumNext]_sumVars => Inv'
  <2>1. CASE part = "mail" /\ SumNext
    BY <2>1, MailStep DEF SumNext
  <2>2. CASE part # "mail" /\ SumNext
    BY <2>2 DEF SumNext
  <2>3. CASE UNCHANGED sumVars
    BY <2>3 DEF sumVars, mailVars, MailOK, PartialsOK, Right
  <2>4. QED
    BY <2>1, <2>2, <2>3
<1>3. Inv => RenderedWithAll
  BY Zenon DEF RenderedWithAll, Mail!RenderedWithAll, MailOK, Right, TopLevel
<1>4. QED
  BY <1>1, <1>2, <1>3, PTL DEF SumSpec

--------------------------------------------------------------------------------
(* TestContainers.                                                             *)

\* The name that an attempt gives its container.
Label(i, n) ==
    IF testOptions[i].name = Unnamed THEN <<i, n>> ELSE <<testOptions[i].name>>

CountOK ==
    /\ testOptions \in [Instances -> TestOptions]
    /\ phase \in [Instances -> {"idle", "attempt", "list", "delay", "started", "failed"}]
    /\ attempt \in [Instances -> Nat] /\ tried \in [Instances -> Nat]
    /\ held = [i \in Instances |-> held[i]]
    /\ \A i \in Instances :
        /\ phase[i] # "idle" => attempt[i] > 0
        /\ phase[i] = "list" => testOptions[i].name # Unnamed

\* A container is of an attempt that was made, and of an earlier one than the
\* attempt that is under way.
DaemonOK ==
    \A c \in daemon :
        /\ c = [of |-> c.of, attempt |-> c.attempt, running |-> c.running, name |-> c.name]
        /\ c.of \in Instances /\ c.attempt \in Nat /\ c.running \in BOOLEAN
        /\ c.attempt <= attempt[c.of]
        /\ phase[c.of] = "attempt" => c.attempt < attempt[c.of]
        /\ c.name = Label(c.of, c.attempt)

\* From the removal of the leftovers to the end of the next attempt no container of
\* the instance runs, which no other instance can have started if it does not reuse.
LeftoversGone ==
    \A i \in Instances :
        /\ phase[i] = "delay" \/ (phase[i] = "attempt" /\ tried[i] > 1)
        /\ testOptions[i].name # Unnamed /\ ~testOptions[i].reuse
        => \A c \in daemon : c.of = i => ~c.running

\* What an instance holds was running when an attempt of its own got it, under the name
\* of that attempt, which is an earlier one than a start that goes on.
HeldOK ==
    \A i \in Instances :
        held[i] # None =>
            /\ held[i].container.running = TRUE
            /\ held[i].since \in Nat
            /\ held[i].since <= attempt[i]
            /\ phase[i] \in {"attempt", "list", "delay"} => held[i].since < attempt[i]
            /\ held[i].container.name = Label(i, held[i].since)

TestOK == CountOK /\ DaemonOK /\ LeftoversGone /\ HeldOK /\ Test!HeldRuns

LEMMA LabelsDiffer ==
  ASSUME NEW i, NEW j, NEW m, NEW n, NEW x, NEW y
  PROVE  <<i, m>> # <<x>> /\ (<<i, m>> = <<j, n>> => i = j /\ m = n) /\ (<<x>> = <<y>> => x = y)
<1>1. Len(<<i, m>>) = 2 /\ Len(<<x>>) = 1
  OBVIOUS
<1>2. <<i, m>>[1] = i /\ <<i, m>>[2] = m /\ <<j, n>>[1] = j /\ <<j, n>>[2] = n
  OBVIOUS
<1>3. <<x>>[1] = x /\ <<y>>[1] = y
  OBVIOUS
<1>4. QED
  BY <1>1, <1>2, <1>3

LEMMA TestInit == Test!Init => TestOK
  BY ClientsAssumption DEF Test!Init, TestOK, CountOK, DaemonOK, LeftoversGone, HeldOK, Test!HeldRuns

LEMMA StartStep == ASSUME TestOK, NEW i \in Instances, Test!Start(i) PROVE TestOK'
<1>1. /\ phase' = [phase EXCEPT ![i] = "attempt"] /\ tried' = [tried EXCEPT ![i] = 1]
      /\ attempt' = [attempt EXCEPT ![i] = attempt[i] + 1]
      /\ UNCHANGED <<testOptions, daemon, held, stopped>>
  BY DEF Test!Start
<1>2. CountOK'
  BY <1>1 DEF TestOK, CountOK
<1>3. \A j \in Instances : attempt'[j] \in Nat /\ attempt'[j] >= attempt[j]
                           /\ (phase'[j] # phase[j] \/ j = i => attempt'[j] > attempt[j])
  BY <1>1 DEF TestOK, CountOK
<1>4. DaemonOK'
  <2>1. SUFFICES ASSUME NEW c \in daemon
                 PROVE  /\ c = [of |-> c.of, attempt |-> c.attempt, running |-> c.running, name |-> c.name]
                        /\ c.of \in Instances /\ c.attempt \in Nat /\ c.running \in BOOLEAN
                        /\ c.attempt <= attempt'[c.of]
                        /\ phase'[c.of] = "attempt" => c.attempt < attempt'[c.of]
                        /\ c.name = Label(c.of, c.attempt)
    BY <1>1 DEF DaemonOK, Label
  <2>2. /\ c = [of |-> c.of, attempt |-> c.attempt, running |-> c.running, name |-> c.name]
        /\ c.of \in Instances /\ c.attempt \in Nat /\ c.running \in BOOLEAN
        /\ c.attempt <= attempt[c.of]
        /\ phase[c.of] = "attempt" => c.attempt < attempt[c.of]
        /\ c.name = Label(c.of, c.attempt)
    BY DEF TestOK, DaemonOK
  <2>3. phase'[c.of] = phase[c.of] \/ attempt'[c.of] > attempt[c.of]
    BY <1>3, <2>2
  <2>4. attempt[c.of] \in Nat /\ attempt'[c.of] \in Nat /\ attempt'[c.of] >= attempt[c.of]
    BY <1>3, <2>2 DEF TestOK, CountOK
  <2>5. QED
    BY <2>2, <2>3, <2>4
<1>5. LeftoversGone'
  BY <1>1 DEF TestOK, CountOK, LeftoversGone
<1>6. HeldOK'
  BY <1>1, <1>3 DEF TestOK, CountOK, HeldOK, Label
<1>7. Test!HeldRuns'
  <2>1. SUFFICES ASSUME NEW j \in Instances, held[j] # None, held[j].container \notin stopped \cup daemon
                 PROVE  /\ testOptions[j].name # Unnamed
                        /\ \/ attempt'[j] > held[j].since
                           \/ \E k \in Instances \ {j} : testOptions[k].name = testOptions[j].name /\ attempt'[k] > 0
    BY <1>1 DEF Test!HeldRuns
  <2>2. testOptions[j].name # Unnamed
    BY <2>1 DEF TestOK, Test!HeldRuns
  <2>3. CASE attempt[j] > held[j].since
    BY <1>3, <2>1, <2>2, <2>3 DEF TestOK, CountOK, HeldOK
  <2>4. CASE \E k \in Instances \ {j} : testOptions[k].name = testOptions[j].name /\ attempt[k] > 0
    BY <1>3, <2>2, <2>4 DEF TestOK, CountOK
  <2>5. QED
    BY <2>1, <2>3, <2>4 DEF TestOK, Test!HeldRuns
<1>8. QED
  BY <1>2, <1>4, <1>5, <1>6, <1>7 DEF TestOK

\* An attempt, or the removal after it, ends and nothing else happens.
LEMMA EndStep ==
  ASSUME TestOK, NEW i \in Instances, phase[i] \in {"attempt", "list"},
         UNCHANGED <<testOptions, daemon, held, stopped, attempt, tried>>,
         NEW end \in {"list", "delay", "started", "failed"}, phase' = [phase EXCEPT ![i] = end],
         end = "list" => testOptions[i].name # Unnamed, end = "delay" => testOptions[i].name = Unnamed
  PROVE  TestOK'
<1>1. \A j \in Instances : phase'[j] = IF j = i THEN end ELSE phase[j]
  BY DEF TestOK, CountOK
<1>2. CountOK' /\ DaemonOK'
  BY <1>1 DEF TestOK, CountOK, DaemonOK, Label
<1>3. LeftoversGone'
  BY <1>1 DEF TestOK, LeftoversGone
<1>4. HeldOK'
  BY <1>1 DEF TestOK, HeldOK, Label
<1>5. QED
  BY <1>2, <1>3, <1>4 DEF TestOK, Test!HeldRuns

\* What an attempt may start has the name of the attempt, and is its own, or of an
\* instance that reuses as well.
LEMMA StartableFacts ==
  ASSUME TestOK, NEW i \in Instances, phase[i] = "attempt", NEW c \in Test!Startable(i)
  PROVE  /\ c = [of |-> c.of, attempt |-> c.attempt, running |-> c.running, name |-> c.name]
         /\ c.of \in Instances /\ c.attempt \in Nat /\ c.running \in BOOLEAN
         /\ c.attempt <= attempt[c.of]
         /\ c.of # i /\ phase[c.of] = "attempt" => c.attempt < attempt[c.of]
         /\ c.name = Label(c.of, c.attempt) /\ c.name = Label(i, attempt[i])
         /\ c.of = i \/ testOptions[c.of].reuse
<1>1. Test!Name(i) = Label(i, attempt[i]) /\ attempt[i] \in Nat
  BY DEF Test!Name, Label, TestOK, CountOK
<1>2. CASE c = Test!Prepared(i, FALSE)
  BY <1>1, <1>2 DEF Test!Prepared
<1>3. CASE c \in Test!Reusable(i)
  <2>1. c \in daemon /\ c.name = Test!Name(i) /\ testOptions[c.of].reuse
    BY <1>3 DEF Test!Reusable, Test!Named
  <2>2. QED
    BY <1>1, <2>1 DEF TestOK, DaemonOK
<1>4. QED
  BY <1>2, <1>3 DEF Test!Startable

\* An attempt ends, having created or started a container, or not.
LEMMA AttemptStep ==
  ASSUME TestOK, NEW i \in Instances,
         phase[i] = "attempt", UNCHANGED <<testOptions, attempt, tried, stopped>>,
         NEW end \in {"list", "delay", "started", "failed"}, phase' = [phase EXCEPT ![i] = end],
         end = "list" => testOptions[i].name # Unnamed, end = "delay" => testOptions[i].name = Unnamed,
         NEW c, c \in Test!Startable(i),
         daemon' \in {daemon, daemon \cup {c}, Test!Starting(c)},
         \/ held' = held
         \/ /\ held' = [held EXCEPT ![i] = [container |-> Test!Running(c), since |-> attempt[i]]]
            /\ daemon' = Test!Starting(c) /\ end = "started"
  PROVE  TestOK'
<1>1. CountOK'
  BY DEF TestOK, CountOK
<1> DEFINE r == Test!Running(c)
<1>2. /\ r.of = c.of /\ r.attempt = c.attempt /\ r.running = TRUE /\ r.name = c.name
      /\ r = [of |-> r.of, attempt |-> r.attempt, running |-> r.running, name |-> r.name]
  BY DEF Test!Running
<1>3. \A d \in daemon' : d \in daemon \/ d = c \/ d = r
  BY DEF Test!Starting
<1>4. \A d \in daemon : d.running = TRUE => d \in daemon'
  <2>1. ASSUME c \in daemon, c.running = TRUE PROVE c = r
    BY <2>1, StartableFacts DEF Test!Running
  <2>2. QED
    BY <2>1 DEF Test!Starting
<1> HIDE DEF r
<1>5. /\ c = [of |-> c.of, attempt |-> c.attempt, running |-> c.running, name |-> c.name]
      /\ c.of \in Instances /\ c.attempt \in Nat /\ c.running \in BOOLEAN
      /\ c.attempt <= attempt[c.of]
      /\ c.of # i /\ phase[c.of] = "attempt" => c.attempt < attempt[c.of]
      /\ c.name = Label(c.of, c.attempt) /\ c.name = Label(i, attempt[i])
      /\ c.of = i \/ testOptions[c.of].reuse
  BY StartableFacts
<1>6. \A j \in Instances : phase'[j] = IF j = i THEN end ELSE phase[j]
  BY DEF TestOK, CountOK
<1>7. DaemonOK'
  <2>1. SUFFICES ASSUME NEW d \in daemon'
                 PROVE  /\ d = [of |-> d.of, attempt |-> d.attempt, running |-> d.running, name |-> d.name]
                        /\ d.of \in Instances /\ d.attempt \in Nat /\ d.running \in BOOLEAN
                        /\ d.attempt <= attempt[d.of]
                        /\ phase'[d.of] = "attempt" => d.attempt < attempt[d.of]
                        /\ d.name = Label(d.of, d.attempt)
    BY DEF DaemonOK, Label
  <2>2. CASE d \in daemon
    BY <1>6, <2>2 DEF TestOK, DaemonOK
  <2>3. CASE d = c \/ d = r
    BY <1>2, <1>5, <1>6, <2>3
  <2>4. QED
    BY <1>3, <2>2, <2>3
<1>8. LeftoversGone'
  <2>1. SUFFICES ASSUME NEW j \in Instances, testOptions[j].name # Unnamed, ~testOptions[j].reuse,
                        phase'[j] = "delay" \/ (phase'[j] = "attempt" /\ tried[j] > 1),
                        NEW d \in daemon', d.of = j
                 PROVE  ~d.running
    BY DEF LeftoversGone
  <2>2. j # i /\ phase'[j] = phase[j]
    BY <1>6, <2>1
  <2>3. d \in daemon
    BY <1>2, <1>3, <1>5, <2>1, <2>2
  <2>4. QED
    BY <2>1, <2>2, <2>3 DEF TestOK, LeftoversGone
<1>9. HeldOK'
  <2>1. SUFFICES ASSUME NEW j \in Instances, held'[j] # None
                 PROVE  /\ held'[j].container.running = TRUE
                        /\ held'[j].since \in Nat /\ held'[j].since <= attempt[j]
                        /\ phase'[j] \in {"attempt", "list", "delay"} => held'[j].since < attempt[j]
                        /\ held'[j].container.name = Label(j, held'[j].since)
    BY DEF HeldOK, Label
  <2>2. CASE held'[j] = held[j]
    BY <1>6, <2>1, <2>2 DEF TestOK, HeldOK
  <2>3. CASE held'[j] # held[j]
    <3>1. j = i /\ held'[j] = [container |-> r, since |-> attempt[j]] /\ end = "started"
      BY <2>3 DEF TestOK, CountOK, r
    <3>2. held'[j].container = r /\ held'[j].since = attempt[j] /\ attempt[j] \in Nat
      BY <3>1 DEF TestOK, CountOK
    <3>3. QED
      BY <1>2, <1>5, <1>6, <3>1, <3>2
  <2>4. QED
    BY <2>2, <2>3
<1>10. Test!HeldRuns'
  <2>1. SUFFICES ASSUME NEW j \in Instances, held'[j] # None,
                        held'[j].container \notin stopped \cup daemon'
                 PROVE  /\ testOptions[j].name # Unnamed
                        /\ \/ attempt[j] > held'[j].since
                           \/ \E k \in Instances \ {j} :
                                testOptions[k].name = testOptions[j].name /\ attempt[k] > 0
    BY DEF Test!HeldRuns
  <2>2. held'[j] = held[j]
    <3>1. SUFFICES ASSUME held'[j] # held[j] PROVE FALSE
      OBVIOUS
    <3>2. held'[j] = [container |-> Test!Running(c), since |-> attempt[i]] /\ daemon' = Test!Starting(c)
      BY <3>1 DEF TestOK, CountOK
    <3>3. held'[j].container \in daemon'
      BY <3>2 DEF Test!Starting
    <3>4. QED
      BY <2>1, <3>3
  <2>3. held[j].container \notin stopped \cup daemon
    BY <1>4, <2>1, <2>2 DEF TestOK, HeldOK
  <2>4. QED
    BY <2>1, <2>2, <2>3 DEF TestOK, Test!HeldRuns
<1>11. QED
  BY <1>1, <1>7, <1>8, <1>9, <1>10 DEF TestOK

\* The leftovers are removed.
LEMMA RemoveStep ==
  ASSUME TestOK, NEW i \in Instances, Test!RemoveContainerByName(i)
  PROVE  TestOK'
<1>1. /\ phase[i] = "list" /\ phase' = [phase EXCEPT ![i] = "delay"]
      /\ daemon' = {c \in daemon : ~(c.running /\ c.name = <<testOptions[i].name>>)}
      /\ UNCHANGED <<testOptions, held, stopped, attempt, tried>>
  BY DEF Test!RemoveContainerByName
<1>2. testOptions[i].name # Unnamed /\ attempt[i] > 0
  BY <1>1 DEF TestOK, CountOK
<1>3. CountOK' /\ DaemonOK'
  BY <1>1 DEF TestOK, CountOK, DaemonOK, Label
<1>4. LeftoversGone'
  <2>1. SUFFICES ASSUME NEW j \in Instances, testOptions[j].name # Unnamed, ~testOptions[j].reuse,
                        phase'[j] = "delay" \/ (phase'[j] = "attempt" /\ tried[j] > 1),
                        NEW c \in daemon', c.of = j
                 PROVE  ~c.running
    BY <1>1 DEF LeftoversGone
  <2>2. c \in daemon /\ ~(c.running /\ c.name = <<testOptions[i].name>>)
    BY <1>1, <2>1
  <2>3. CASE j = i
    BY <1>2, <2>1, <2>2, <2>3 DEF TestOK, DaemonOK, Label
  <2>4. CASE j # i
    BY <1>1, <2>1, <2>2, <2>4 DEF TestOK, CountOK, LeftoversGone
  <2>5. QED
    BY <2>3, <2>4
<1>5. HeldOK'
  BY <1>1 DEF TestOK, CountOK, HeldOK, Label
<1>6. Test!HeldRuns'
  <2>1. SUFFICES ASSUME NEW j \in Instances, held[j] # None, held[j].container \notin stopped \cup daemon'
                 PROVE  /\ testOptions[j].name # Unnamed
                        /\ \/ attempt[j] > held[j].since
                           \/ \E k \in Instances \ {j} : testOptions[k].name = testOptions[j].name /\ attempt[k] > 0
    BY <1>1 DEF Test!HeldRuns
  <2>2. CASE held[j].container \notin daemon
    BY <2>1, <2>2 DEF TestOK, Test!HeldRuns
  <2>3. CASE held[j].container \in daemon
    <3>1. /\ held[j].container.name = <<testOptions[i].name>>
          /\ held[j].container.name = Label(j, held[j].since)
      BY <1>1, <2>1, <2>3 DEF TestOK, HeldOK
    <3>2. testOptions[j].name # Unnamed /\ testOptions[j].name = testOptions[i].name
      BY <3>1, LabelsDiffer DEF Label
    <3>3. CASE j = i
      BY <1>1, <2>1, <3>2, <3>3 DEF TestOK, HeldOK
    <3>4. CASE j # i
      BY <1>2, <3>2, <3>4
    <3>5. QED
      BY <3>3, <3>4
  <2>4. QED
    BY <2>2, <2>3
<1>7. QED
  BY <1>3, <1>4, <1>5, <1>6 DEF TestOK

LEMMA TestStep == ASSUME TestOK, Test!Next PROVE TestOK'
<1>1. ASSUME NEW i \in Instances, (\E s \in BOOLEAN : Test!New(i, s)) \/ Test!GetInstance(i)
      PROVE  TestOK'
  <2>1. UNCHANGED <<testOptions, daemon, held, stopped, phase, attempt, tried>>
    BY <1>1 DEF Test!New, Test!GetInstance
  <2>2. QED
    BY <2>1 DEF TestOK, CountOK, DaemonOK, LeftoversGone, HeldOK, Test!HeldRuns, Label
<1>2. ASSUME NEW i \in Instances, Test!AttemptSucceeds(i) PROVE TestOK'
  <2>1. /\ phase[i] = "attempt" /\ phase' = [phase EXCEPT ![i] = "started"]
        /\ UNCHANGED <<testOptions, attempt, tried, stopped>>
    BY <1>2 DEF Test!AttemptSucceeds
  <2>2. PICK c \in Test!Startable(i) :
          /\ daemon' = Test!Starting(c)
          /\ held' = [held EXCEPT ![i] = [container |-> Test!Running(c), since |-> attempt[i]]]
    BY <1>2 DEF Test!AttemptSucceeds
  <2>3. QED
    BY <2>1, <2>2, AttemptStep
<1>3. ASSUME NEW i \in Instances, Test!AttemptBreaks(i) PROVE TestOK'
  <2> DEFINE end == IF tried[i] >= Attempts THEN "failed"
                    ELSE IF testOptions[i].name = Unnamed THEN "delay" ELSE "list"
  <2>1. /\ phase[i] = "attempt" /\ phase' = [phase EXCEPT ![i] = end]
        /\ UNCHANGED <<testOptions, attempt, tried, stopped, held>>
    BY <1>3 DEF Test!AttemptBreaks
  <2>2. /\ end \in {"list", "delay", "started", "failed"}
        /\ end = "list" => testOptions[i].name # Unnamed
        /\ end = "delay" => testOptions[i].name = Unnamed
    OBVIOUS
  <2> HIDE DEF end
  <2>3. CASE daemon' = daemon
    BY <2>1, <2>2, <2>3, EndStep
  <2>4. ASSUME NEW c \in Test!Startable(i), daemon' \in {daemon \cup {c}, Test!Starting(c)}
        PROVE  TestOK'
    BY <2>1, <2>2, <2>4, AttemptStep
  <2>5. QED
    BY <1>3, <2>3, <2>4 DEF Test!AttemptBreaks
<1>4. ASSUME NEW i \in Instances, Test!NameTaken(i) \/ Test!StartFails(i) PROVE TestOK'
  <2>1. /\ phase[i] \in {"attempt", "list"} /\ phase' = [phase EXCEPT ![i] = "failed"]
        /\ UNCHANGED <<testOptions, daemon, held, stopped, attempt, tried>>
    BY <1>4 DEF Test!NameTaken, Test!StartFails
  <2>2. QED
    BY <2>1, EndStep
<1>5. ASSUME NEW i \in Instances, Test!Retry(i) PROVE TestOK'
  <2>1. /\ phase[i] = "delay" /\ phase' = [phase EXCEPT ![i] = "attempt"]
        /\ tried' = [tried EXCEPT ![i] = tried[i] + 1]
        /\ attempt' = [attempt EXCEPT ![i] = attempt[i] + 1]
        /\ UNCHANGED <<testOptions, daemon, held, stopped>>
    BY <1>5 DEF Test!Retry
  <2>2. CountOK'
    BY <2>1 DEF TestOK, CountOK
  <2>7. LeftoversGone'
    <3>1. ASSUME NEW j \in Instances, phase'[j] = "delay" \/ (phase'[j] = "attempt" /\ tried'[j] > 1)
          PROVE  phase[j] = "delay" \/ (phase[j] = "attempt" /\ tried[j] > 1)
      <4>1. CASE j = i
        <5>1. phase[j] = "delay"
          BY <2>1, <4>1
        <5>2. QED
          BY <5>1
      <4>2. CASE j # i
        <5>1. phase'[j] = phase[j] /\ tried'[j] = tried[j]
          BY <2>1, <4>2 DEF TestOK, CountOK
        <5>2. QED
          BY <3>1, <5>1
      <4>3. QED
        BY <4>1, <4>2
    <3>2. QED
      BY <2>1, <3>1 DEF TestOK, LeftoversGone
  <2>3. \A j \in Instances : attempt[j] \in Nat /\ attempt'[j] \in Nat /\ attempt'[j] >= attempt[j]
                             /\ (j = i => attempt'[j] = attempt[j] + 1)
    BY <2>1 DEF TestOK, CountOK
  <2>4. DaemonOK'
    <3>1. SUFFICES ASSUME NEW c \in daemon
                   PROVE  /\ c = [of |-> c.of, attempt |-> c.attempt, running |-> c.running, name |-> c.name]
                          /\ c.of \in Instances /\ c.attempt \in Nat /\ c.running \in BOOLEAN
                          /\ c.attempt <= attempt'[c.of]
                          /\ phase'[c.of] = "attempt" => c.attempt < attempt'[c.of]
                          /\ c.name = Label(c.of, c.attempt)
      BY <2>1 DEF DaemonOK, Label
    <3>2. /\ c = [of |-> c.of, attempt |-> c.attempt, running |-> c.running, name |-> c.name]
          /\ c.of \in Instances /\ c.attempt \in Nat /\ c.running \in BOOLEAN
          /\ c.attempt <= attempt[c.of]
          /\ phase[c.of] = "attempt" => c.attempt < attempt[c.of]
          /\ c.name = Label(c.of, c.attempt)
      BY DEF TestOK, DaemonOK
    <3>3. phase'[c.of] = phase[c.of] \/ attempt'[c.of] = attempt[c.of] + 1
      BY <2>1, <2>3, <3>2 DEF TestOK, CountOK
    <3>4. attempt[c.of] \in Nat /\ attempt'[c.of] \in Nat /\ attempt'[c.of] >= attempt[c.of]
      BY <2>3, <3>2
    <3>5. QED
      BY <3>2, <3>3, <3>4
  <2>5. HeldOK'
    BY <2>1, <2>3 DEF TestOK, CountOK, HeldOK, Label
  <2>6. Test!HeldRuns'
    <3>1. SUFFICES ASSUME NEW j \in Instances, held[j] # None, held[j].container \notin stopped \cup daemon
                   PROVE  /\ testOptions[j].name # Unnamed
                          /\ \/ attempt'[j] > held[j].since
                             \/ \E k \in Instances \ {j} : testOptions[k].name = testOptions[j].name /\ attempt'[k] > 0
      BY <2>1 DEF Test!HeldRuns
    <3>2. testOptions[j].name # Unnamed
      BY <3>1 DEF TestOK, Test!HeldRuns
    <3>3. CASE attempt[j] > held[j].since
      BY <2>3, <3>1, <3>2, <3>3 DEF TestOK, HeldOK
    <3>4. CASE \E k \in Instances \ {j} : testOptions[k].name = testOptions[j].name /\ attempt[k] > 0
      BY <2>3, <3>2, <3>4
    <3>5. QED
      BY <3>1, <3>3, <3>4 DEF TestOK, Test!HeldRuns
  <2>8. QED
    BY <2>2, <2>4, <2>5, <2>6, <2>7 DEF TestOK
<1>6. ASSUME NEW i \in Instances, Test!Stop(i) PROVE TestOK'
  <2>1. /\ stopped' = stopped \cup {held[i].container}
        /\ daemon' \in {daemon, daemon \ {held[i].container}}
        /\ UNCHANGED <<testOptions, held, phase, attempt, tried>>
    BY <1>6 DEF Test!Stop
  <2>2. CountOK' /\ DaemonOK' /\ LeftoversGone' /\ HeldOK'
    BY <2>1 DEF TestOK, CountOK, DaemonOK, LeftoversGone, HeldOK, Label
  <2>3. Test!HeldRuns'
    BY <2>1 DEF TestOK, Test!HeldRuns
  <2>4. QED
    BY <2>2, <2>3 DEF TestOK
<1>7. QED
  BY <1>1, <1>2, <1>3, <1>4, <1>5, <1>6, StartStep, RemoveStep DEF Test!Next

\* Whatever attempts lose their answers, and whichever instances share a name or reuse a
\* container, nothing that an earlier attempt has left running blocks a retry, and no
\* retry takes a container away that is held under a name of its own; what was only
\* half created may block it (TestContainersTD.start).
THEOREM RetryTidySafe == SumSpec => []RetryTidy
<1> DEFINE Inv == part = "test" => TestOK
<1>1. SumInit => Inv
  BY TestInit DEF SumInit
<1>2. Inv /\ [SumNext]_sumVars => Inv'
  <2>1. CASE part = "test" /\ SumNext
    BY <2>1, TestStep DEF SumNext
  <2>2. CASE part # "test" /\ SumNext
    BY <2>2 DEF SumNext
  <2>3. CASE UNCHANGED sumVars
    BY <2>3 DEF sumVars, testVars, TestOK, CountOK, DaemonOK, LeftoversGone, HeldOK, Test!HeldRuns, Label
  <2>4. QED
    BY <2>1, <2>2, <2>3
<1>3. Inv => RetryTidy
  <2>1. ASSUME TestOK, NEW i \in Instances, NEW c \in Test!Named(i), phase[i] = "attempt",
               tried[i] > 1, c \notin Test!Reusable(i), c.of = i
        PROVE  ~c.running
    <3>1. c \in daemon /\ c.name = Label(i, attempt[i]) /\ c.name = Label(i, c.attempt)
      BY <2>1 DEF Test!Named, Test!Name, Label, TestOK, DaemonOK
    <3>2. ~testOptions[i].reuse
      BY <2>1 DEF Test!Reusable
    <3>3. c.attempt # attempt[i]
      BY <2>1, <3>1 DEF TestOK, CountOK, DaemonOK
    <3>4. testOptions[i].name # Unnamed
      BY <3>1, <3>3, LabelsDiffer DEF Label
    <3>5. QED
      BY <2>1, <3>1, <3>2, <3>4 DEF TestOK, LeftoversGone
  <2>2. QED
    BY <2>1 DEF RetryTidy, Test!RetryTidy, Test!RetryNotBlocked, TestOK
<1>4. QED
  BY <1>1, <1>2, <1>3, PTL DEF SumSpec

--------------------------------------------------------------------------------
(* DockerCompose.                                                              *)

\* Until two environments are up together, the one that is up is the one that
\* globalThis knows, which the module knows too unless it was evaluated again, and
\* a tear-down that runs is of that one.
ComposeOK ==
    ~doubled =>
        \/ up = {} /\ environment = None /\ globalThis = None /\ teardown = None
        \/ \E c \in Composes :
            /\ up = {c} /\ globalThis = c
            /\ environment \in {None, c} /\ teardown \in {None, c}

LEMMA ComposeInit == Compose!Init => ComposeOK
  BY DEF Compose!Init, ComposeOK

LEMMA ComposeStep == ASSUME ComposeOK, Compose!Next PROVE ComposeOK'
<1> USE ClientsAssumption DEF ComposeOK
<1>1. ASSUME NEW c \in Composes, Compose!InitDockerCompose(c) PROVE ComposeOK'
  BY <1>1 DEF Compose!InitDockerCompose
<1>2. ASSUME NEW c \in Composes, Compose!ComposeUp(c) PROVE ComposeOK'
  <2>1. CASE UNCHANGED <<up, environment, globalThis, doubled>>
    BY <1>2, <2>1 DEF Compose!ComposeUp
  <2>2. CASE /\ up' = up \cup {c} /\ environment' = c /\ globalThis' = c
             /\ doubled' = (doubled \/ up # {})
    <3>1. SUFFICES ASSUME ~doubled' PROVE ComposeOK'
      OBVIOUS
    <3>2. up = {} /\ ~doubled
      BY <2>2, <3>1
    <3>3. teardown' = teardown /\ teardown = None
      BY <1>2, <3>2 DEF Compose!ComposeUp
    <3>4. up' = {c}
      BY <2>2, <3>2
    <3>5. QED
      BY <2>2, <3>3, <3>4
  <2>3. QED
    BY <1>2, <2>1, <2>2 DEF Compose!ComposeUp
<1>3. ASSUME Compose!Reload PROVE ComposeOK'
  BY <1>3 DEF Compose!Reload
<1>4. ASSUME Compose!CloseDockerCompose PROVE ComposeOK'
  BY <1>4 DEF Compose!CloseDockerCompose, Compose!StartedEnvironment
<1>5. ASSUME Compose!ComposeDown PROVE ComposeOK'
  BY <1>5 DEF Compose!ComposeDown
<1>6. QED
  BY <1>1, <1>2, <1>3, <1>4, <1>5 DEF Compose!Next

\* Whatever set-ups and tear-downs overlap, fail or are evaluated again, the next
\* tear-down closes the environment that is up, unless another came up beside it
\* (closeDockerCompose).
THEOREM ComposeKnownSafe == SumSpec => []ComposeKnown
<1> DEFINE Inv == part = "compose" => ComposeOK
<1>1. SumInit => Inv
  BY ComposeInit DEF SumInit
<1>2. Inv /\ [SumNext]_sumVars => Inv'
  <2>1. CASE part = "compose" /\ SumNext
    BY <2>1, ComposeStep DEF SumNext
  <2>2. CASE part # "compose" /\ SumNext
    BY <2>2 DEF SumNext
  <2>3. CASE UNCHANGED sumVars
    BY <2>3 DEF sumVars, composeVars, ComposeOK
  <2>4. QED
    BY <2>1, <2>2, <2>3
<1>3. Inv => ComposeKnown
  BY ClientsAssumption DEF ComposeKnown, Compose!ComposeKnown, Compose!StartedEnvironment, ComposeOK
<1>4. QED
  BY <1>1, <1>2, <1>3, PTL DEF SumSpec

--------------------------------------------------------------------------------
(* Startup.                                                                    *)

HasClient(s) == Start!Given(s).defined /\ (Start!Given(s).ddb \/ Start!Given(s).aws \/ Start!Given(s).local)
HasTable(s) == Start!Given(s).defined /\ Start!Given(s).table
HasLogger(s) == Start!Given(s).defined /\ Start!Given(s).logger

Subscriptions == {Start!ResolveSubscription(h) : h \in setup.handlers}

\* What the initializations that ran have left: the client and the table of one that
\* names them, and the loggers of those that are done, each once.
LoggersOK ==
    /\ loggers \in Seq(Start!Sources)
    /\ \A a, b \in 1..Len(loggers) : loggers[a] = loggers[b] => a = b
    /\ \A s \in Start!Sources :
        (\E a \in 1..Len(loggers) : loggers[a] = s) <=> init[s] = "done" /\ HasLogger(s)

ClientOK ==
    /\ client # <<>> => client[1] \in Start!Sources /\ HasClient(client[1])
    /\ client = <<>> => \A s \in Start!Sources : init[s] # "waiting" => ~HasClient(s)
    /\ table # "none" => table \in Start!Sources /\ HasTable(table)
    /\ table = "none" => \A s \in Start!Sources : init[s] # "waiting" => ~HasTable(s)

StartOK ==
    /\ init \in [Start!Sources -> {"waiting", "logger", "done"}]
    /\ LoggersOK /\ ClientOK
    /\ \A s \in Start!Sources : init[s] = "logger" => HasLogger(s)
    /\ \A m \in Models : models[m] # {"none"} /\ HasLogger("config") => "config" \in models[m]
    /\ app = "up" => \A s \in Start!Sources : init[s] = "done"
    /\ polling = "on" => subscribed = Subscriptions

LEMMA StartInit == Start!Init => StartOK
<1> SUFFICES ASSUME Start!Init PROVE StartOK
  OBVIOUS
<1>1. Len(loggers) = 0 /\ loggers \in Seq(Start!Sources)
  BY DEF Start!Init
<1>2. LoggersOK
  BY <1>1 DEF Start!Init, LoggersOK
<1>3. ClientOK
  BY DEF Start!Init, ClientOK
<1>4. \A m \in Models : models[m] = {"none"}
  BY DEF Start!Init
<1>5. QED
  BY <1>2, <1>3, <1>4 DEF Start!Init, StartOK

LEMMA InitializationStep ==
  ASSUME StartOK, NEW s \in Start!Sources, Start!Initialization(s)
  PROVE  StartOK'
<1>1. /\ app = "starting" /\ init[s] = "waiting"
      /\ UNCHANGED <<setup, app, loggers, models, subscribed, polling>>
  BY DEF Start!Initialization
<1>2. \A r : /\ Start!Given(r)' = Start!Given(r)
             /\ HasClient(r)' = HasClient(r) /\ HasTable(r)' = HasTable(r) /\ HasLogger(r)' = HasLogger(r)
  BY <1>1 DEF HasClient, HasTable, HasLogger, Start!Given
<1> DEFINE end == IF HasLogger(s) THEN "logger" ELSE "done"
<1>3. init' = [init EXCEPT ![s] = end]
  BY DEF Start!Initialization, HasLogger
<1>4. init' \in [Start!Sources -> {"waiting", "logger", "done"}]
  BY <1>3 DEF StartOK
<1>5. \A r \in Start!Sources : init'[r] = IF r = s THEN end ELSE init[r]
  BY <1>3 DEF StartOK
<1>6. LoggersOK'
  <2>1. \A r \in Start!Sources : init'[r] = "done" /\ HasLogger(r) <=> init[r] = "done" /\ HasLogger(r)
    BY <1>1, <1>5
  <2>2. QED
    BY <1>1, <1>2, <2>1 DEF StartOK, LoggersOK
<1>7. ClientOK'
  <2>1. /\ HasClient(s) => client' # <<>> /\ client'[1] = s
        /\ ~HasClient(s) => client' = client
    <3>1. CASE ~Start!Given(s).defined
      BY <3>1 DEF Start!Initialization, HasClient
    <3>2. CASE Start!Given(s).defined
      <4>1. client' = Start!ClientOf(s)
        BY <3>2 DEF Start!Initialization
      <4>2. \A kind : <<s, kind>> # <<>> /\ <<s, kind>>[1] = s
        OBVIOUS
      <4>3. QED
        BY <3>2, <4>1, <4>2 DEF Start!ClientOf, HasClient
    <3>3. QED
      BY <3>1, <3>2
  <2>2. /\ HasTable(s) => table' = s
        /\ ~HasTable(s) => table' = table
    BY DEF Start!Initialization, HasTable
  <2>3. s # "none"
    BY DEF Start!Sources
  <2>4. (client' # <<>> => client'[1] \in Start!Sources /\ HasClient(client'[1])) /\ (table' # "none" => table' \in Start!Sources /\ HasTable(table'))
    BY <2>1, <2>2 DEF StartOK, ClientOK
  <2>5. client' = <<>> => \A r \in Start!Sources : init'[r] # "waiting" => ~HasClient(r)
    BY <1>5, <2>1 DEF StartOK, ClientOK
  <2>6. table' = "none" => \A r \in Start!Sources : init'[r] # "waiting" => ~HasTable(r)
    BY <1>5, <2>2, <2>3 DEF StartOK, ClientOK
  <2>7. QED
    BY <1>2, <2>4, <2>5, <2>6 DEF ClientOK
<1>8. QED
  BY <1>1, <1>2, <1>4, <1>5, <1>6, <1>7 DEF StartOK, Subscriptions, Start!ResolveSubscription

LEMMA LoggerStep ==
  ASSUME StartOK, NEW s \in Start!Sources, Start!AddLogger(s)
  PROVE  StartOK'
<1>1. /\ app = "starting" /\ init[s] = "logger"
      /\ init' = [init EXCEPT ![s] = "done"]
      /\ loggers' = Append(loggers, s)
      /\ UNCHANGED <<setup, app, client, table, models, subscribed, polling>>
  BY DEF Start!AddLogger
<1>2. \A r : /\ HasClient(r)' = HasClient(r) /\ HasTable(r)' = HasTable(r) /\ HasLogger(r)' = HasLogger(r)
  BY <1>1 DEF HasClient, HasTable, HasLogger, Start!Given
<1>3. init' \in [Start!Sources -> {"waiting", "logger", "done"}]
  BY <1>1 DEF StartOK
<1>4. \A r \in Start!Sources : init'[r] = IF r = s THEN "done" ELSE init[r]
  BY <1>1 DEF StartOK
<1>5. HasLogger(s) /\ \A a \in 1..Len(loggers) : loggers[a] # s
  BY <1>1 DEF StartOK, LoggersOK
<1>6. LoggersOK'
  <2>1. loggers \in Seq(Start!Sources) /\ Len(loggers) \in Nat
    BY DEF StartOK, LoggersOK
  <2>2. /\ loggers' \in Seq(Start!Sources) /\ Len(loggers') = Len(loggers) + 1
        /\ \A a \in 1..Len(loggers) : loggers'[a] = loggers[a]
        /\ loggers'[Len(loggers) + 1] = s
    BY <1>1, <2>1
  <2>3. ASSUME NEW a \in 1..Len(loggers'), NEW b \in 1..Len(loggers'), loggers'[a] = loggers'[b]
        PROVE  a = b
    <3>1. (a \in 1..Len(loggers) \/ a = Len(loggers) + 1) /\ (b \in 1..Len(loggers) \/ b = Len(loggers) + 1)
      BY <2>1, <2>2
    <3>2. QED
      BY <1>5, <2>2, <2>3, <3>1 DEF StartOK, LoggersOK
  <2>4. ASSUME NEW r \in Start!Sources
        PROVE  (\E a \in 1..Len(loggers') : loggers'[a] = r) <=> init'[r] = "done" /\ HasLogger(r)
    <3>1. (\E a \in 1..Len(loggers') : loggers'[a] = r)
            <=> r = s \/ (\E a \in 1..Len(loggers) : loggers[a] = r)
      BY <2>1, <2>2
    <3>2. (\E a \in 1..Len(loggers) : loggers[a] = r) <=> init[r] = "done" /\ HasLogger(r)
      BY DEF StartOK, LoggersOK
    <3>3. QED
      BY <1>4, <1>5, <3>1, <3>2
  <2>5. QED
    BY <1>2, <2>2, <2>3, <2>4 DEF LoggersOK
<1>7. ClientOK'
  BY <1>1, <1>2, <1>4 DEF StartOK, ClientOK
<1>8. QED
  BY <1>1, <1>2, <1>3, <1>4, <1>6, <1>7 DEF StartOK, Subscriptions, Start!ResolveSubscription

LEMMA ApplicationStep ==
  ASSUME StartOK, Start!Next PROVE StartOK'
<1>1. ASSUME \/ Start!ResolveOptions \/ Start!RedisConnect \/ Start!RedisGivesUp
             \/ Start!Up \/ Start!Close \/ Start!OnModuleDestroy \/ Start!CloseCamunda
      PROVE  StartOK'
  <2>1. /\ UNCHANGED <<setup, init, client, table, loggers, models, subscribed>>
        /\ polling' = polling \/ polling' = "stopped"
        /\ app' = "up" => app = "up" \/ \A s \in Start!Sources : init[s] = "done"
    BY <1>1 DEF Start!ResolveOptions, Start!RedisConnect, Start!RedisGivesUp,
                Start!Up, Start!Close, Start!OnModuleDestroy, Start!CloseCamunda
  <2>2. \A r : /\ HasClient(r)' = HasClient(r) /\ HasTable(r)' = HasTable(r) /\ HasLogger(r)' = HasLogger(r)
    BY <2>1 DEF HasClient, HasTable, HasLogger, Start!Given
  <2>3. LoggersOK' /\ ClientOK' /\ Subscriptions' = Subscriptions
    BY <2>1, <2>2 DEF StartOK, LoggersOK, ClientOK, Subscriptions, Start!ResolveSubscription
  <2>4. QED
    BY <2>1, <2>2, <2>3 DEF StartOK
<1>2. ASSUME NEW m \in Models, Start!CreateModel(m) PROVE StartOK'
  <2>1. /\ UNCHANGED <<setup, app, init, client, table, loggers, subscribed, polling>>
        /\ models' = [models EXCEPT ![m] = Start!ToSet(loggers)] /\ init["config"] = "done"
    BY <1>2 DEF Start!CreateModel
  <2>2. \A r : /\ HasClient(r)' = HasClient(r) /\ HasTable(r)' = HasTable(r) /\ HasLogger(r)' = HasLogger(r)
    BY <2>1 DEF HasClient, HasTable, HasLogger, Start!Given
  <2>3. LoggersOK' /\ ClientOK' /\ Subscriptions' = Subscriptions
    BY <2>1, <2>2 DEF StartOK, LoggersOK, ClientOK, Subscriptions, Start!ResolveSubscription
  <2>4. HasLogger("config") => "config" \in Start!ToSet(loggers)
    BY <2>1 DEF StartOK, LoggersOK, Start!Sources, Start!ToSet
  <2>5. \A n \in Models : models'[n] = models[n] \/ models'[n] = Start!ToSet(loggers)
    BY <2>1
  <2>6. QED
    BY <2>1, <2>2, <2>3, <2>4, <2>5 DEF StartOK
<1>3. ASSUME Start!Listen PROVE StartOK'
  <2>1. /\ UNCHANGED <<setup, init, client, table, loggers, models>>
        /\ app' = "up" => app = "up"
        /\ polling' = "on" => polling = "on" \/ subscribed' = Subscriptions
    BY <1>3 DEF Start!Listen, Subscriptions
  <2>2. \A r : /\ HasClient(r)' = HasClient(r) /\ HasTable(r)' = HasTable(r) /\ HasLogger(r)' = HasLogger(r)
    BY <2>1 DEF HasClient, HasTable, HasLogger, Start!Given
  <2>3. LoggersOK' /\ ClientOK' /\ Subscriptions' = Subscriptions
    BY <2>1, <2>2 DEF StartOK, LoggersOK, ClientOK, Subscriptions, Start!ResolveSubscription
  <2>4. polling = "off"
    BY <1>3 DEF Start!Listen
  <2>5. QED
    BY <2>1, <2>2, <2>3, <2>4 DEF StartOK
<1>4. QED
  BY <1>1, <1>2, <1>3, InitializationStep, LoggerStep DEF Start!Next

\* Whichever initialization of dynamoose comes last and whenever its logger is there,
\* an application that is up is configured by the sources it was given, its models
\* were made after that, and its Camunda client polls for all handlers.
THEOREM UpAsConfiguredSafe == SumSpec => []UpAsConfigured
<1> DEFINE Inv == part = "start" => StartOK
<1>1. SumInit => Inv
  BY StartInit DEF SumInit
<1>2. Inv /\ [SumNext]_sumVars => Inv'
  <2>1. CASE part = "start" /\ SumNext
    BY <2>1, ApplicationStep DEF SumNext
  <2>2. CASE part # "start" /\ SumNext
    BY <2>2 DEF SumNext
  <2>3. CASE UNCHANGED sumVars
    BY <2>3 DEF sumVars, startVars, StartOK, LoggersOK, ClientOK, Subscriptions, HasClient, HasTable, HasLogger,
                Start!Given, Start!ResolveSubscription
  <2>4. QED
    BY <2>1, <2>2, <2>3
<1>3. Inv => UpAsConfigured
  <2>1. ASSUME StartOK, app = "up"
        PROVE  /\ IF \E s \in Start!Sources : HasClient(s) THEN HasClient(client[1]) ELSE client = <<>>
               /\ IF \E s \in Start!Sources : HasTable(s) THEN table # "none" /\ HasTable(table) ELSE table = "none"
               /\ Start!IsInjective(loggers)
               /\ Start!ToSet(loggers) = {s \in Start!Sources : HasLogger(s)}
    <3>1. \A s \in Start!Sources : init[s] = "done"
      BY <2>1 DEF StartOK
    <3>2. IF \E s \in Start!Sources : HasClient(s) THEN HasClient(client[1]) ELSE client = <<>>
      BY <2>1, <3>1 DEF StartOK, ClientOK
    <3>3. IF \E s \in Start!Sources : HasTable(s) THEN table # "none" /\ HasTable(table) ELSE table = "none"
      BY <2>1, <3>1 DEF StartOK, ClientOK
    <3>4. loggers \in Seq(Start!Sources) /\ DOMAIN loggers = 1..Len(loggers)
      BY <2>1 DEF StartOK, LoggersOK
    <3>5. Start!IsInjective(loggers)
      BY <2>1, <3>4 DEF StartOK, LoggersOK, Start!IsInjective
    <3>6. Start!ToSet(loggers) = {s \in Start!Sources : HasLogger(s)}
      BY <2>1, <3>1, <3>4 DEF StartOK, LoggersOK, Start!ToSet
    <3>7. QED
      BY <3>2, <3>3, <3>5, <3>6
  <2>2. QED
    BY <2>1 DEF UpAsConfigured, Start!UpAsConfigured, StartOK, HasClient, HasTable, HasLogger, Subscriptions
<1>4. QED
  BY <1>1, <1>2, <1>3, PTL DEF SumSpec

================================================================================
