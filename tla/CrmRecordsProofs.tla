--------------------------- MODULE CrmRecordsProofs ---------------------------
(***************************************************************************)
(* Proofs about CrmRecords, for any requests, records and users.           *)
(*                                                                         *)
(* Inv adds to the properties what a call has to know for its write to     *)
(* keep them: its input has what its kind needs (InputSound), its event    *)
(* tells of a write that took place, and whatever a count did not find     *)
(* came after it (CountSound).                                             *)
(***************************************************************************)
EXTENDS CrmRecords, TLAPS

\* The input of a call fits the kind of its record.
InputSound(c) ==
    /\ c.op = "create" =>
          /\ \A kind \in Schema[KindOf[c.id]].bound : Of(c.links, kind) # {}
          /\ c.stage # NoStage <=> KindOf[c.id] = "opportunity"
    /\ c.op = "update" => (c.stage # NoStage => KindOf[c.id] = "opportunity")

\* An event about to be recorded tells of a write that took place.
EventSound(c) == c.at \in {"auditing", "auditingStage"} => c.wrote \in 1 .. writes

\* Only companies are counted for; whatever a count did not find came to the
\* company after it.
CountSound(c) ==
    /\ c.at = "counting" => KindOf[c.id] = "company"
    /\ \A kind \in Attached : c.counts[kind] # -1 => KindOf[c.id] = "company"
    /\ ~c.found =>
          \A r \in Records :
              /\ KindOf[r] \in Attached
              /\ c.counts[KindOf[r]] # -1
              /\ c.id \in row[r].links
              => row[r].since > c.counts[KindOf[r]]

CallSound(c) ==
    /\ InputSound(c)
    /\ EventSound(c)
    /\ \A kind \in Attached : c.counts[kind] <= writes
    /\ CountSound(c)

Inv ==
    /\ TypeOK
    /\ NoOrphan
    /\ \A h \in Callers : call[h] # Idle => CallSound(call[h])
    /\ AuditFaithful

-----------------------------------------------------------------------------
(* The schema *)

LEMMA SchemaKinds ==
    /\ Kinds = {"user", "company", "contact", "lead", "activity", "task", "opportunity", "campaign",
                "step", "followUp", "community", "contributor", "partner", "investor", "useCase"}
    /\ \A kind \in Kinds : Schema[kind].bound \subseteq {"company", "campaign", "activity", "opportunity"}
    /\ Schema["company"].bound = {}
    /\ Schema["campaign"].bound = {}
    /\ Schema["activity"].bound = {}
    /\ Schema["opportunity"].bound = {"company"}
    /\ Schema["contact"].bound = {"company"}
    /\ Schema["lead"].bound = {"company"}
    /\ \A kind \in Kinds : Schema[kind].counted # {} => kind = "company"
    /\ Schema["company"].counted = Attached
<1>1. QED
  BY DEF Kinds, Schema, Port, UserPort, CompanyPort, ContactPort, LeadPort, ActivityPort, TaskPort,
         OpportunityPort, CampaignPort, CampaignStepPort, FollowUpPort, CommunityPort,
         ContributorPort, PartnerPort, InvestorPort, UseCasePort, Attached

\* What a record cannot be without may need a record itself, but that one
\* needs none: a deletion goes two levels deep.
LEMMA NoChain ==
    ASSUME NEW a \in Kinds, NEW b \in Schema[a].bound, NEW c \in Schema[b].bound
    PROVE  Schema[c].bound = {}
<1>1. b \in {"company", "campaign", "activity", "opportunity"}
  BY SchemaKinds
<1>2. b = "opportunity" /\ c = "company"
  BY <1>1, SchemaKinds
<1>3. QED
  BY <1>2, SchemaKinds

\* What is left by a deletion refers to nothing that went with it, and still
\* has what its kind needs.
LEMMA RemovalSpares ==
    ASSUME TypeOK, NEW r \in Records, NEW q \in Records, q \notin Doomed(r),
           NEW p \in row[q].links, KindOf[p] \in Schema[KindOf[q]].bound
    PROVE  p \notin Doomed(r)
<1> SUFFICES ASSUME p \in Doomed(r) PROVE FALSE
  OBVIOUS
<1>1. p \in Records /\ KindOf[p] \in Kinds /\ KindOf[q] \in Kinds
  BY KindOfAssumption DEF TypeOK, Row
<1>2. p \notin {r} \cup Dependents({r})
  BY DEF Doomed, Dependents
<1>3. p \in Dependents({r} \cup Dependents({r}))
  BY <1>2 DEF Doomed
<1>4. PICK m \in row[p].links \cap ({r} \cup Dependents({r})) : KindOf[m] \in Schema[KindOf[p]].bound
  BY <1>3 DEF Dependents
<1>5. m \in Dependents({r})
  BY <1>1, <1>2, <1>4 DEF Dependents
<1>6. KindOf[r] \in Schema[KindOf[m]].bound
  BY <1>5 DEF Dependents
<1>7. QED
  BY <1>1, <1>4, <1>6, NoChain

-----------------------------------------------------------------------------
LEMMA CallFields ==
    ASSUME TypeOK, NEW h \in Callers, call[h] # Idle
    PROVE  /\ call[h] \in Call
           /\ call[h].id \in Records
           /\ call[h].links \subseteq Records
           /\ call[h].stage \in Stages \cup {NoStage}
           /\ call[h].was \in Row
           /\ call[h].counts \in [Attached -> {-1} \cup Nat]
           /\ call[h].found \in BOOLEAN
           /\ call[h].wrote \in Nat
<1>1. call[h] \in Call
  BY DEF TypeOK
<1>2. QED
  BY <1>1 DEF Call

\* A call that stands anywhere is under way.
LEMMA Active ==
    ASSUME NEW h \in Callers, call[h].at # "idle"
    PROVE  call[h] # Idle
<1>1. QED
  BY DEF Idle

LEMMA InitInv == Init => Inv
<1> SUFFICES ASSUME Init PROVE Inv
  OBVIOUS
<1>1. PICK stage \in Stages :
         row = [r \in Records |->
                    IF r \notin DOMAIN Initial THEN Empty("unborn")
                    ELSE [Empty("live") EXCEPT !.links = Initial[r],
                             !.stage = IF KindOf[r] = "opportunity" THEN stage ELSE NoStage]]
  BY DEF Init
<1>2. ASSUME NEW r \in Records, r \notin DOMAIN Initial
      PROVE  /\ row[r] \in Row
             /\ row[r].status = "unborn"
             /\ row[r].stage = NoStage
  BY <1>1, <1>2 DEF Empty, Row
<1>3. ASSUME NEW r \in Records, r \in DOMAIN Initial
      PROVE  /\ row[r] \in Row
             /\ row[r].status = "live"
             /\ row[r].links = Initial[r]
             /\ row[r].stage = IF KindOf[r] = "opportunity" THEN stage ELSE NoStage
  BY <1>1, <1>3, InitialAssumption DEF Empty, Row
<1>4. TypeOK
  <2>1. row \in [Records -> Row]
    BY <1>1, <1>2, <1>3
  <2>2. \A r \in Records : row[r].stage # NoStage <=> IsLive(r) /\ KindOf[r] = "opportunity"
    BY <1>2, <1>3, StagesAssumption DEF IsLive
  <2>3. QED
    BY <2>1, <2>2 DEF Init, TypeOK
<1>5. NoOrphan
  BY <1>2, <1>3, InitialAssumption DEF NoOrphan, IsLive
<1>6. AuditFaithful
  <2>1. writes = 0 /\ log = {}
    BY DEF Init
  <2>2. 1 .. writes = {}
    BY <2>1
  <2>3. QED
    BY <2>1, <2>2 DEF AuditFaithful
<1>7. QED
  BY <1>4, <1>5, <1>6 DEF Inv, Init

-----------------------------------------------------------------------------
(* Steps that write nothing *)

\* A step of h that only moves h, and not from where it has an event to record.
LEMMA QuietStepKeepsInv ==
    ASSUME Inv, NEW h \in Callers, NEW c,
           UNCHANGED <<row, writes, log, silent, moved>>,
           call' = [call EXCEPT ![h] = c],
           call[h] # Idle => call[h].at # "auditing",
           c = Idle \/ (c \in Call /\ CallSound(c))
    PROVE  Inv'
<1>1. call'[h] = c /\ \A g \in Callers \ {h} : call'[g] = call[g]
  BY DEF Inv, TypeOK
<1>2. TypeOK'
  BY DEF Inv, TypeOK, IsLive
<1>3. NoOrphan'
  BY DEF Inv, NoOrphan, IsLive
<1>4. \A g \in Callers : call'[g] # Idle => CallSound(call[g])'
  <2> SUFFICES ASSUME NEW g \in Callers, call'[g] # Idle PROVE CallSound(call[g])'
    OBVIOUS
  <2>1. CallSound(call'[g])
    BY <1>1 DEF Inv
  <2>2. QED
    BY <2>1 DEF CallSound, InputSound, EventSound, CountSound
<1>5. AuditFaithful'
  BY <1>1 DEF Inv, AuditFaithful
<1>6. QED
  BY <1>2, <1>3, <1>4, <1>5 DEF Inv

LEMMA EndKeepsInv ==
    ASSUME Inv, NEW h \in Callers, NotWritten(h), call[h].at # "auditing"
    PROVE  Inv'
<1>1. QED
  BY QuietStepKeepsInv DEF NotWritten, End

\* Where the checks lead.
LEMMA Points ==
    ASSUME NEW op, NEW id \in Records
    PROVE  /\ ToWrite(op, id) \in {"writing", "counting"}
           /\ ToCheck(op, id) \in {"locating", "checking", "writing", "counting"}
           /\ ToWrite(op, id) = "counting" => op = "delete" /\ KindOf[id] = "company"
           /\ ToCheck(op, id) = "counting" => op = "delete" /\ KindOf[id] = "company"
           /\ Facades[KindOf[id]].first \in {"reading", "checking"}
<1>1. KindOf[id] \in Kinds
  BY KindOfAssumption
<1>2. ToWrite(op, id) \in {"writing", "counting"}
      /\ (ToWrite(op, id) = "counting" => op = "delete" /\ KindOf[id] = "company")
  BY <1>1, SchemaKinds DEF ToWrite
<1>3. ToCheck(op, id) \in {"locating", "checking", ToWrite(op, id)}
  BY DEF ToCheck
<1>4. Facades[KindOf[id]].first \in {"reading", "checking"}
  BY <1>1, SchemaKinds DEF Facades, Facade, UserFacade, CompanyFacade, LeadFacade, ContactFacade,
     ActivityFacade, TaskFacade, OpportunityFacade, CampaignFacade, CampaignStepFacade,
     FollowUpFacade, ContributorFacade, PartnerFacade, CommunityFacade, InvestorFacade, UseCaseFacade
<1>5. QED
  BY <1>2, <1>3, <1>4

LEMMA BeginKeepsInv ==
    ASSUME Inv, NEW h \in Callers, NEW op \in {"create", "update", "delete"}, NEW id \in Records,
           NEW links \in SUBSET Records, NEW stage \in Stages \cup {NoStage},
           call[h] = Idle, Begin(h, op, id, links, stage),
           op = "create" =>
              /\ \A kind \in Schema[KindOf[id]].bound : Of(links, kind) # {}
              /\ stage # NoStage <=> KindOf[id] = "opportunity",
           op = "update" => (stage # NoStage => KindOf[id] = "opportunity")
    PROVE  Inv'
<1>1. PICK actor \in Users :
         call' = [call EXCEPT ![h] =
              [at |-> IF op # "create" THEN Facades[KindOf[id]].first ELSE ToCheck(op, id),
               op |-> op, actor |-> actor, id |-> id, links |-> links, stage |-> stage,
               was |-> Empty("unborn"), company |-> {}, counts |-> [k \in Attached |-> -1],
               found |-> FALSE, wrote |-> 0]]
  BY DEF Begin
<1> DEFINE at == IF op # "create" THEN Facades[KindOf[id]].first ELSE ToCheck(op, id)
           c == [at |-> at,
                 op |-> op, actor |-> actor, id |-> id, links |-> links, stage |-> stage,
                 was |-> Empty("unborn"), company |-> {}, counts |-> [k \in Attached |-> -1],
                 found |-> FALSE, wrote |-> 0]
<1>2. at \in {"reading", "checking", "locating", "writing"}
  BY Points
<1> HIDE DEF at
<1>3. Empty("unborn") \in Row
  BY DEF Empty, Row
<1>4. [k \in Attached |-> -1] \in [Attached -> {-1} \cup Nat]
  OBVIOUS
<1>5. c \in Call
  BY <1>2, <1>3, <1>4 DEF Call
<1>6. CallSound(c)
  <2>1. InputSound(c)
    BY DEF InputSound
  <2>2. EventSound(c)
    BY <1>2 DEF EventSound
  <2>3. c.at # "counting" /\ \A kind \in Attached : c.counts[kind] = -1
    BY <1>2
  <2>4. CountSound(c)
    BY <2>3 DEF CountSound
  <2>5. \A kind \in Attached : c.counts[kind] <= writes
    BY <2>3 DEF Inv, TypeOK
  <2>6. QED
    BY <2>1, <2>2, <2>4, <2>5 DEF CallSound
<1>7. UNCHANGED <<row, writes, log, silent, moved>> /\ call' = [call EXCEPT ![h] = c]
  BY <1>1 DEF Begin, at
<1> HIDE DEF c
<1>8. QED
  BY <1>5, <1>6, <1>7, QuietStepKeepsInv

LEMMA InputsFit ==
    ASSUME NEW kind \in Kinds, NEW links \in Inputs[kind]
    PROVE  links \subseteq Records
<1>1. QED
  BY DEF Inputs

LEMMA RequestsKeepInv ==
    ASSUME Inv, NEW h \in Callers, Create(h) \/ Update(h) \/ Delete(h)
    PROVE  Inv'
<1>1. CASE Create(h)
  <2>1. PICK r \in Fresh : \E links \in Inputs[KindOf[r]], stage \in StageInputs(KindOf[r]) :
           /\ \A kind \in Schema[KindOf[r]].bound : Of(links, kind) # {}
           /\ Begin(h, "create", r, links, stage)
    BY <1>1 DEF Create
  <2>2. r \in Records /\ KindOf[r] \in Kinds
    BY KindOfAssumption DEF Fresh
  <2>3. PICK links \in Inputs[KindOf[r]], stage \in StageInputs(KindOf[r]) :
           /\ \A kind \in Schema[KindOf[r]].bound : Of(links, kind) # {}
           /\ Begin(h, "create", r, links, stage)
    BY <2>1
  <2>4. stage \in Stages \cup {NoStage} /\ (stage # NoStage <=> KindOf[r] = "opportunity")
    BY StagesAssumption DEF StageInputs
  <2>5. links \in SUBSET Records
    BY <2>2, InputsFit
  <2>6. call[h] = Idle
    BY <1>1 DEF Create, Free
  <2>7. QED
    BY <2>2, <2>3, <2>4, <2>5, <2>6, BeginKeepsInv
<1>2. CASE Update(h)
  <2> PICK r \in Records :
         \E links \in Inputs[KindOf[r]], stage \in {NoStage} \cup StageInputs(KindOf[r]) :
            Begin(h, "update", r, links, stage)
    BY <1>2 DEF Update
  <2>1. PICK links \in Inputs[KindOf[r]], stage \in {NoStage} \cup StageInputs(KindOf[r]) :
           Begin(h, "update", r, links, stage)
    OBVIOUS
  <2>2. stage \in Stages \cup {NoStage} /\ (stage # NoStage => KindOf[r] = "opportunity")
    BY DEF StageInputs
  <2>3. links \in SUBSET Records
    BY InputsFit, KindOfAssumption
  <2>4. call[h] = Idle
    BY <1>2 DEF Update, Free
  <2>5. QED
    BY <2>1, <2>2, <2>3, <2>4, BeginKeepsInv
<1>3. CASE Delete(h)
  <2>1. PICK r \in Records : Begin(h, "delete", r, {}, NoStage)
    BY <1>3 DEF Delete
  <2>2. call[h] = Idle
    BY <1>3 DEF Delete, Free
  <2>3. QED
    BY <2>1, <2>2, BeginKeepsInv
<1>4. QED
  BY <1>1, <1>2, <1>3

\* A call that goes on without counting or writing keeps what it knows.
LEMMA GoingOnIsSound ==
    ASSUME Inv, NEW h \in Callers, call[h] # Idle, NEW c,
           c.op = call[h].op, c.id = call[h].id, c.links = call[h].links, c.stage = call[h].stage,
           c.counts = call[h].counts, c.found = call[h].found,
           c.at \in {"reading", "locating", "checking", "writing", "counting"},
           c.at = "counting" => KindOf[c.id] = "company"
    PROVE  CallSound(c)
<1>1. CallSound(call[h])
  BY DEF Inv
<1>2. InputSound(c)
  BY <1>1 DEF CallSound, InputSound
<1>3. EventSound(c)
  BY DEF EventSound
<1>4. CountSound(c)
  BY <1>1 DEF CallSound, CountSound
<1>5. QED
  BY <1>1, <1>2, <1>3, <1>4 DEF CallSound

LEMMA ReadsKeepInv ==
    ASSUME Inv, NEW h \in Callers, ReadPrevious(h) \/ Locate(h)
    PROVE  Inv'
<1>1. call[h].at \in {"reading", "locating"} /\ UNCHANGED <<row, writes, log, silent, moved>>
  BY DEF ReadPrevious, Locate
<1>2. call[h] # Idle
  BY <1>1, Active
<1>3. call[h] \in Call /\ call[h].id \in Records /\ row[call[h].id] \in Row
  BY <1>2, CallFields DEF Inv, TypeOK
<1>4. PICK at \in {"locating", "checking", "writing", "counting"}, was \in Row, company \in SUBSET Records :
         /\ call' = [call EXCEPT ![h] = [@ EXCEPT !.at = at, !.was = was, !.company = company]]
         /\ at = "counting" => KindOf[call[h].id] = "company"
  <2>1. CASE ReadPrevious(h)
    <3> DEFINE at == IF Facades[KindOf[call[h].id]].first = "checking"
                     THEN ToWrite(call[h].op, call[h].id)
                     ELSE ToCheck(call[h].op, call[h].id)
    <3>1. /\ at \in {"locating", "checking", "writing", "counting"}
          /\ at = "counting" => KindOf[call[h].id] = "company"
      BY <1>3, Points
    <3>2. call' = [call EXCEPT ![h].was = row[call[h].id], ![h].at = at]
      BY <2>1 DEF ReadPrevious
    <3>3. call[h].company \in SUBSET Records
      BY <1>3 DEF Call
    <3> HIDE DEF at
    <3>4. [call[h] EXCEPT !.was = row[call[h].id], !.at = at]
             = [call[h] EXCEPT !.at = at, !.was = row[call[h].id], !.company = call[h].company]
      BY <1>3 DEF Call
    <3>5. call' = [call EXCEPT ![h] =
             [@ EXCEPT !.at = at, !.was = row[call[h].id], !.company = call[h].company]]
      BY <3>2, <3>4 DEF Inv, TypeOK
    <3>6. QED
      BY <1>3, <3>1, <3>3, <3>5
  <2>2. CASE Locate(h)
    <3> DEFINE company == Of(UNION {row[a].links : a \in Target(call[h], "activity")}, "company")
    <3>1. company \in SUBSET Records
      <4>1. Target(call[h], "activity") \subseteq Records
        BY <1>3 DEF Target, Of, Call, Row
      <4>2. \A a \in Records : row[a].links \subseteq Records
        BY DEF Inv, TypeOK, Row
      <4>3. QED
        BY <4>1, <4>2 DEF Of
    <3>2. call' = [call EXCEPT ![h].at = "checking", ![h].company = company]
      BY <2>2 DEF Locate
    <3>3. call[h].was \in Row
      BY <1>3 DEF Call
    <3> HIDE DEF company
    <3>4. [call[h] EXCEPT !.at = "checking", !.company = company]
             = [call[h] EXCEPT !.at = "checking", !.was = call[h].was, !.company = company]
      BY <1>3 DEF Call
    <3>5. call' = [call EXCEPT ![h] =
             [@ EXCEPT !.at = "checking", !.was = call[h].was, !.company = company]]
      BY <3>2, <3>4 DEF Inv, TypeOK
    <3>6. QED
      BY <3>1, <3>3, <3>5
  <2>3. QED
    BY <2>1, <2>2
<1> DEFINE c == [call[h] EXCEPT !.at = at, !.was = was, !.company = company]
<1>5. /\ c \in Call
      /\ c.op = call[h].op /\ c.id = call[h].id /\ c.links = call[h].links /\ c.stage = call[h].stage
      /\ c.counts = call[h].counts /\ c.found = call[h].found /\ c.at = at
  BY <1>3, <1>4 DEF Call
<1>6. call' = [call EXCEPT ![h] = c]
  BY <1>4
<1> HIDE DEF c
<1>7. CallSound(c)
  BY <1>2, <1>4, <1>5, GoingOnIsSound
<1>8. QED
  BY <1>1, <1>5, <1>6, <1>7, QuietStepKeepsInv

LEMMA CheckKeepsInv ==
    ASSUME Inv, NEW h \in Callers, Check(h)
    PROVE  Inv'
<1>1. call[h].at = "checking" /\ UNCHANGED <<row, writes, log, silent, moved>>
  BY DEF Check
<1>2. call[h] # Idle
  BY <1>1, Active
<1>3. call[h] \in Call /\ call[h].id \in Records
  BY <1>2, CallFields DEF Inv
<1>4. CASE call' = [call EXCEPT ![h] = Idle]
  BY <1>1, <1>4, QuietStepKeepsInv
<1>5. ASSUME NEW at \in {"reading", "writing", "counting"},
             at = "counting" => KindOf[call[h].id] = "company",
             call' = [call EXCEPT ![h].at = at]
      PROVE  Inv'
  <2> DEFINE c == [call[h] EXCEPT !.at = at]
  <2>1. /\ c \in Call
        /\ c.op = call[h].op /\ c.id = call[h].id /\ c.links = call[h].links /\ c.stage = call[h].stage
        /\ c.counts = call[h].counts /\ c.found = call[h].found /\ c.at = at
    BY <1>3, <1>5 DEF Call
  <2>2. call' = [call EXCEPT ![h] = c]
    BY <1>5
  <2> HIDE DEF c
  <2>3. CallSound(c)
    BY <1>2, <1>5, <2>1, GoingOnIsSound
  <2>4. QED
    BY <1>1, <2>1, <2>2, <2>3, QuietStepKeepsInv
<1>6. CASE call' = [call EXCEPT ![h].at = "reading"]
  BY <1>5, <1>6
<1>7. CASE call' = [call EXCEPT ![h].at = ToWrite(call[h].op, call[h].id)]
  <2>1. PICK at : at = ToWrite(call[h].op, call[h].id)
    OBVIOUS
  <2>2. at \in {"writing", "counting"} /\ (at = "counting" => KindOf[call[h].id] = "company")
    BY <1>3, <2>1, Points
  <2>3. call' = [call EXCEPT ![h].at = at]
    BY <1>7, <2>1
  <2>4. QED
    BY <1>5, <2>2, <2>3
<1>8. \/ call' = [call EXCEPT ![h] = Idle]
      \/ call' = [call EXCEPT ![h].at = "reading"]
      \/ call' = [call EXCEPT ![h].at = ToWrite(call[h].op, call[h].id)]
  BY Zenon DEF Check, End, Goto
<1>9. QED
  BY <1>4, <1>6, <1>7, <1>8

\* A count sees every row attached before it.
LEMMA CountKeepsInv ==
    ASSUME Inv, NEW h \in Callers, Count(h)
    PROVE  Inv'
<1>1. call[h].at = "counting" /\ UNCHANGED <<row, writes, log, silent, moved>>
  BY DEF Count
<1>2. call[h] # Idle
  BY <1>1, Active
<1>3. /\ call[h] \in Call /\ call[h].counts \in [Attached -> {-1} \cup Nat]
      /\ call[h].found \in BOOLEAN
  BY <1>2, CallFields DEF Inv
<1>4. CallSound(call[h]) /\ KindOf[call[h].id] = "company"
  BY <1>1, <1>2 DEF Inv, CallSound, CountSound
<1>5. PICK k \in Attached :
         call' = [call EXCEPT ![h].counts[k] = writes,
                        ![h].found = @ \/ \E r \in Of(Records, k) : call[h].id \in row[r].links]
  BY <1>4, SchemaKinds DEF Count
<1> DEFINE counts == [call[h].counts EXCEPT ![k] = writes]
           found == call[h].found \/ \E r \in Of(Records, k) : call[h].id \in row[r].links
           c == [call[h] EXCEPT !.counts = counts, !.found = found]
<1>6. writes \in Nat
  BY DEF Inv, TypeOK
<1>7. /\ counts \in [Attached -> {-1} \cup Nat]
      /\ counts[k] = writes
      /\ \A kind \in Attached \ {k} : counts[kind] = call[h].counts[kind]
  BY <1>3, <1>6
<1>8. found \in BOOLEAN /\ (found <=> call[h].found \/ \E r \in Of(Records, k) : call[h].id \in row[r].links)
  BY <1>3
<1>9. call' = [call EXCEPT ![h] = c]
  BY <1>5 DEF Inv, TypeOK
<1> HIDE DEF counts, found
<1>10. /\ c \in Call
       /\ c.op = call[h].op /\ c.id = call[h].id /\ c.links = call[h].links /\ c.stage = call[h].stage
       /\ c.counts = counts /\ c.found = found /\ c.at = "counting"
  BY <1>1, <1>3, <1>7, <1>8 DEF Call
<1> HIDE DEF c
<1>11. InputSound(c)
  BY <1>4, <1>10 DEF CallSound, InputSound
<1>12. EventSound(c)
  BY <1>10 DEF EventSound
<1>13. \A kind \in Attached : c.counts[kind] <= writes
  BY <1>4, <1>6, <1>7, <1>10 DEF CallSound
<1>14. CountSound(c)
  <2>1. ASSUME ~c.found, NEW r \in Records, KindOf[r] \in Attached, c.counts[KindOf[r]] # -1,
               c.id \in row[r].links
        PROVE  row[r].since > c.counts[KindOf[r]]
    <3>1. KindOf[r] # k
      BY <2>1, <1>8, <1>10 DEF Of
    <3>2. c.counts[KindOf[r]] = call[h].counts[KindOf[r]] /\ ~call[h].found
      BY <2>1, <3>1, <1>7, <1>8, <1>10
    <3>3. QED
      BY <2>1, <3>2, <1>4, <1>10 DEF CallSound, CountSound
  <2>2. QED
    BY <2>1, <1>4, <1>10 DEF CountSound
<1>15. CallSound(c)
  BY <1>11, <1>12, <1>13, <1>14 DEF CallSound
<1>16. QED
  BY <1>1, <1>9, <1>10, <1>15, QuietStepKeepsInv

-----------------------------------------------------------------------------
(* Writes *)

\* A write attaches rows to a company with its own number, or leaves them
\* attached with the number they had.
AttachedBefore ==
    \A r, p \in Records :
        KindOf[p] = "company" /\ p \in row'[r].links =>
            \/ row'[r].since = writes + 1
            \/ p \in row[r].links /\ row'[r].since = row[r].since

LEMMA WriteKeepsInv ==
    ASSUME Inv, NEW h \in Callers, NEW c \in Call,
           call[h].at # "auditing",
           call' = [call EXCEPT ![h] = c],
           c.at = "auditing", c.wrote = writes + 1, InputSound(c), CountSound(c),
           \A kind \in Attached : c.counts[kind] <= writes,
           row' \in [Records -> Row],
           \A r \in Records : row'[r].stage # NoStage <=> row'[r].status = "live" /\ KindOf[r] = "opportunity",
           NoOrphan',
           AttachedBefore,
           writes' = writes + 1, UNCHANGED <<log, silent>>, moved' \subseteq moved \cup {writes + 1}
    PROVE  Inv'
<1>1. call'[h] = c /\ \A g \in Callers \ {h} : call'[g] = call[g]
  BY DEF Inv, TypeOK
<1>2. writes \in Nat /\ writes' \in Nat /\ writes + 1 \in 1 .. writes' /\ 1 .. writes \subseteq 1 .. writes'
  BY DEF Inv, TypeOK
<1>3. TypeOK'
  <2>1. call' \in [Callers -> Call \cup {Idle}]
    BY DEF Inv, TypeOK
  <2>2. log \cup silent \subseteq [write : 1 .. writes', action : Actions]
    BY <1>2 DEF Inv, TypeOK
  <2>3. moved' \subseteq 1 .. writes'
    BY <1>2 DEF Inv, TypeOK
  <2>4. QED
    BY <1>2, <2>1, <2>2, <2>3 DEF TypeOK, IsLive
<1>4. ASSUME NEW d \in Call, InputSound(d), CountSound(d),
             \A kind \in Attached : d.counts[kind] <= writes,
             d.at \in {"auditing", "auditingStage"} => d.wrote \in 1 .. writes'
      PROVE  CallSound(d)'
  <2>1. d.counts \in [Attached -> {-1} \cup Nat]
    BY DEF Call
  <2>2. \A kind \in Attached : d.counts[kind] <= writes'
    BY <1>2, <1>4, <2>1
  <2>3. ASSUME NEW r \in Records, ~d.found, KindOf[r] \in Attached, d.counts[KindOf[r]] # -1,
               d.id \in row'[r].links
        PROVE  row'[r].since > d.counts[KindOf[r]]
    <3>1. d.id \in Records /\ KindOf[d.id] = "company"
      BY <1>4, <2>3 DEF CountSound, Call
    <3>2. CASE row'[r].since = writes + 1
      BY <1>2, <1>4, <2>1, <2>3, <3>2
    <3>3. CASE d.id \in row[r].links /\ row'[r].since = row[r].since
      BY <1>4, <2>3, <3>3 DEF CountSound
    <3>4. QED
      BY <2>3, <3>1, <3>2, <3>3 DEF AttachedBefore
  <2>4. CountSound(d)'
    BY <1>4, <2>3 DEF CountSound
  <2>5. InputSound(d)' /\ EventSound(d)'
    BY <1>4 DEF InputSound, EventSound
  <2>6. QED
    BY <2>2, <2>4, <2>5 DEF CallSound
<1>5. \A g \in Callers : call'[g] # Idle => CallSound(call[g])'
  <2> SUFFICES ASSUME NEW g \in Callers, call'[g] # Idle PROVE CallSound(call[g])'
    OBVIOUS
  <2>1. PICK d : d = call'[g]
    OBVIOUS
  <2>2. CASE g = h
    <3>1. d = c
      BY <1>1, <2>1, <2>2
    <3>2. CallSound(d)'
      BY <1>2, <1>4, <3>1
    <3>3. QED
      BY <2>1, <3>2 DEF CallSound, InputSound, EventSound, CountSound
  <2>3. CASE g # h
    <3>1. d = call[g] /\ d # Idle
      BY <1>1, <2>1, <2>3
    <3>2. d \in Call /\ CallSound(d)
      BY <3>1 DEF Inv, TypeOK
    <3>3. CallSound(d)'
      BY <1>2, <1>4, <3>2 DEF CallSound, EventSound
    <3>4. QED
      BY <2>1, <3>3 DEF CallSound, InputSound, EventSound, CountSound
  <2>4. QED
    BY <2>2, <2>3
<1>6. AuditFaithful'
  <2>1. \A e \in log' : e.write \in 1 .. writes'
    BY <1>2 DEF Inv, AuditFaithful
  <2>2. ASSUME NEW w \in 1 .. writes'
        PROVE  \/ Event(w, "record") \in log' \cup silent'
               \/ \E g \in Callers : call'[g] # Idle /\ call'[g].wrote = w /\ call'[g].at = "auditing"
    <3>1. CASE w = writes + 1
      <4>1. c # Idle
        BY DEF Idle
      <4>2. QED
        BY <1>1, <3>1, <4>1
    <3>2. CASE w \in 1 .. writes
      BY <1>1, <3>2 DEF Inv, AuditFaithful
    <3>3. QED
      BY <1>2, <3>1, <3>2
  <2>3. QED
    BY <2>1, <2>2 DEF AuditFaithful
<1>7. QED
  BY <1>3, <1>5, <1>6 DEF Inv

\* What the writes of the facades have in common.
LEMMA WrittenKeepsInv ==
    ASSUME Inv, NEW h \in Callers, call[h].at \in {"writing", "counting"},
           Written(h, row'),
           row' \in [Records -> Row],
           \A r \in Records : row'[r].stage # NoStage <=> row'[r].status = "live" /\ KindOf[r] = "opportunity",
           NoOrphan',
           AttachedBefore
    PROVE  Inv'
<1>1. call[h] # Idle
  BY Active
<1>2. call[h] \in Call /\ CallSound(call[h])
  BY <1>1, CallFields DEF Inv
<1>3. writes \in Nat /\ writes + 1 \in Nat
  BY DEF Inv, TypeOK
<1> DEFINE n == writes + 1
           c == [call[h] EXCEPT !.at = "auditing", !.wrote = n]
<1>4. call' = [call EXCEPT ![h].at = "auditing", ![h].wrote = n]
  BY DEF Written
<1> HIDE DEF n
<1>5. n \in Nat
  BY <1>3 DEF n
<1>6. call' = [call EXCEPT ![h] = c]
  BY <1>4 DEF Inv, TypeOK
<1>7. /\ c \in Call
      /\ c.op = call[h].op /\ c.id = call[h].id /\ c.links = call[h].links /\ c.stage = call[h].stage
      /\ c.counts = call[h].counts /\ c.found = call[h].found /\ c.at = "auditing" /\ c.wrote = n
  BY <1>2, <1>5 DEF Call
<1> HIDE DEF c
<1>8. InputSound(c)
  BY <1>2, <1>7 DEF CallSound, InputSound
<1>9. CountSound(c)
  BY <1>2, <1>7 DEF CallSound, CountSound
<1>10. \A kind \in Attached : c.counts[kind] <= writes
  BY <1>2, <1>7 DEF CallSound
<1>11. writes' = writes + 1 /\ UNCHANGED <<log, silent>> /\ moved' \subseteq moved \cup {writes + 1}
  BY DEF Written
<1>12. c.wrote = writes + 1
  BY <1>7 DEF n
<1>13. call[h].at # "auditing"
  OBVIOUS
<1>14. QED
  BY <1>6, <1>7, <1>8, <1>9, <1>10, <1>11, <1>12, <1>13, WriteKeepsInv

LEMMA InsertKeepsInv ==
    ASSUME Inv, NEW h \in Callers, Insert(h)
    PROVE  Inv'
<1>1. call[h].at = "writing" /\ call[h].op = "create"
  BY DEF Insert
<1>2. call[h] # Idle
  BY <1>1, Active
<1>3. /\ call[h] \in Call /\ call[h].id \in Records /\ call[h].links \subseteq Records
      /\ call[h].stage \in Stages \cup {NoStage} /\ InputSound(call[h])
  BY <1>2, CallFields DEF Inv, CallSound
<1>4. CASE NotWritten(h)
  BY <1>1, <1>4, EndKeepsInv
<1>5. ASSUME \A p \in call[h].links : IsLive(p),
             Written(h, [row EXCEPT ![call[h].id] =
                    [status |-> "live", links |-> call[h].links, stage |-> call[h].stage,
                     since |-> writes + 1]])
      PROVE  Inv'
  <2>1. PICK r \in Records : r = call[h].id
    BY <1>3
  <2>2. PICK x : x = [status |-> "live", links |-> call[h].links, stage |-> call[h].stage,
                      since |-> writes + 1]
    OBVIOUS
  <2>3. /\ x \in Row /\ x.status = "live" /\ x.links = call[h].links /\ x.since = writes + 1
        /\ x.stage # NoStage <=> KindOf[r] = "opportunity"
    BY <1>1, <1>3, <2>1, <2>2 DEF Row, InputSound, Inv, TypeOK
  <2>4. row' = [row EXCEPT ![r] = x] /\ Written(h, row')
    BY <1>5, <2>1, <2>2 DEF Written
  <2>5. row'[r] = x /\ \A q \in Records \ {r} : row'[q] = row[q]
    BY <2>4 DEF Inv, TypeOK
  <2>6. row' \in [Records -> Row]
    BY <2>3, <2>4 DEF Inv, TypeOK
  <2>7. \A q \in Records : row'[q].stage # NoStage <=> row'[q].status = "live" /\ KindOf[q] = "opportunity"
    BY <2>3, <2>5 DEF Inv, TypeOK, IsLive
  <2>8. \A q \in Records : IsLive(q) => row'[q].status = "live"
    BY <2>3, <2>5 DEF IsLive
  <2>9. NoOrphan'
    <3> SUFFICES ASSUME NEW q \in Records, row'[q].status = "live"
                 PROVE  /\ \A p \in row'[q].links : row'[p].status = "live"
                        /\ \A kind \in Schema[KindOf[q]].bound : Of(row'[q].links, kind) # {}
      BY DEF NoOrphan, IsLive
    <3>1. CASE q = r
      BY <1>1, <1>3, <1>5, <2>1, <2>3, <2>5, <2>8, <3>1 DEF InputSound
    <3>2. CASE q # r
      <4>1. row'[q] = row[q] /\ IsLive(q)
        BY <2>5, <3>2 DEF IsLive
      <4>2. row[q].links \subseteq Records
        BY DEF Inv, TypeOK, Row
      <4>3. QED
        BY <4>1, <4>2, <2>8 DEF Inv, NoOrphan
    <3>3. QED
      BY <3>1, <3>2
  <2>10. AttachedBefore
    BY <2>3, <2>5 DEF AttachedBefore
  <2>11. QED
    BY <1>1, <2>4, <2>6, <2>7, <2>9, <2>10, WrittenKeepsInv
<1>6. QED
  BY <1>4, <1>5 DEF Insert

LEMMA ChangeKeepsInv ==
    ASSUME Inv, NEW h \in Callers, Change(h)
    PROVE  Inv'
<1>1. call[h].at = "writing" /\ call[h].op = "update"
  BY DEF Change
<1>2. call[h] # Idle
  BY <1>1, Active
<1>3. /\ call[h] \in Call /\ call[h].id \in Records /\ call[h].links \subseteq Records
      /\ call[h].stage \in Stages \cup {NoStage} /\ InputSound(call[h])
  BY <1>2, CallFields DEF Inv, CallSound
<1>4. CASE NotWritten(h)
  BY <1>1, <1>4, EndKeepsInv
<1>5. ASSUME IsLive(call[h].id), \A p \in call[h].links : IsLive(p),
             Written(h, [row EXCEPT ![call[h].id] = Merged(call[h])])
      PROVE  Inv'
  <2>1. PICK r \in Records : r = call[h].id
    BY <1>3
  <2>2. PICK x : x = Merged(call[h])
    OBVIOUS
  <2>3. PICK new : new = {p \in row[r].links : Of(call[h].links, KindOf[p]) = {}} \cup call[h].links
    OBVIOUS
  <2>4. row[r] \in Row /\ writes + 1 \in Nat
    BY DEF Inv, TypeOK
  <2>5. x = [row[r] EXCEPT !.links = new,
                    !.stage = IF call[h].stage = NoStage THEN @ ELSE call[h].stage,
                    !.since = IF Of(new, "company") = Of(row[r].links, "company") THEN @ ELSE writes + 1]
    BY <2>1, <2>2, <2>3 DEF Merged
  <2>6. /\ x.status = row[r].status /\ x.links = new
        /\ x.stage = IF call[h].stage = NoStage THEN row[r].stage ELSE call[h].stage
        /\ x.since = IF Of(new, "company") = Of(row[r].links, "company") THEN row[r].since ELSE writes + 1
    BY <2>4, <2>5 DEF Row
  <2>7. new \subseteq Records
    BY <1>3, <2>3, <2>4 DEF Row
  <2>8. x \in Row
    <3>1. PICK t \in Stages \cup {NoStage} : t = IF call[h].stage = NoStage THEN row[r].stage ELSE call[h].stage
      BY <1>3, <2>4 DEF Row
    <3>2. PICK s \in Nat : s = IF Of(new, "company") = Of(row[r].links, "company") THEN row[r].since ELSE writes + 1
      BY <2>4 DEF Row
    <3>3. x = [row[r] EXCEPT !.links = new, !.stage = t, !.since = s]
      BY <2>5, <3>1, <3>2
    <3>4. QED
      BY <2>4, <2>7, <3>3 DEF Row
  <2>9. row' = [row EXCEPT ![r] = x] /\ Written(h, row')
    BY <1>5, <2>1, <2>2 DEF Written
  <2>10. row'[r] = x /\ \A q \in Records \ {r} : row'[q] = row[q]
    BY <2>9 DEF Inv, TypeOK
  <2>11. row' \in [Records -> Row]
    BY <2>8, <2>9 DEF Inv, TypeOK
  <2>12. \A q \in Records : row'[q].stage # NoStage <=> row'[q].status = "live" /\ KindOf[q] = "opportunity"
    BY <1>1, <1>3, <1>5, <2>1, <2>6, <2>10 DEF Inv, TypeOK, IsLive, InputSound
  <2>13. \A q \in Records : row'[q].status = row[q].status
    BY <2>6, <2>10
  <2>14. NoOrphan'
    <3> SUFFICES ASSUME NEW q \in Records, row'[q].status = "live"
                 PROVE  /\ \A p \in row'[q].links : row'[p].status = "live"
                        /\ \A kind \in Schema[KindOf[q]].bound : Of(row'[q].links, kind) # {}
      BY DEF NoOrphan, IsLive
    <3>1. IsLive(q) /\ \A p \in row[q].links : p \in Records /\ row[p].status = "live"
      BY <2>13 DEF Inv, TypeOK, Row, NoOrphan, IsLive
    <3>2. \A kind \in Schema[KindOf[q]].bound : Of(row[q].links, kind) # {}
      BY <3>1 DEF Inv, NoOrphan
    <3>3. CASE q = r
      <4>1. row'[q].links = new
        BY <2>6, <2>10, <3>3
      <4>2. \A p \in new : p \in Records /\ row[p].status = "live"
        BY <1>3, <1>5, <2>3, <3>1, <3>3 DEF IsLive
      <4>3. ASSUME NEW kind \in Schema[KindOf[q]].bound PROVE Of(new, kind) # {}
        <5>1. PICK p \in row[q].links : KindOf[p] = kind
          BY <3>2 DEF Of
        <5>2. CASE Of(call[h].links, kind) = {}
          BY <2>3, <3>3, <5>1, <5>2 DEF Of
        <5>3. CASE Of(call[h].links, kind) # {}
          BY <2>3, <5>3 DEF Of
        <5>4. QED
          BY <5>2, <5>3
      <4>4. QED
        BY <2>13, <4>1, <4>2, <4>3
    <3>4. CASE q # r
      BY <2>10, <2>13, <3>1, <3>2, <3>4
    <3>5. QED
      BY <3>3, <3>4
  <2>15. AttachedBefore
    <3> SUFFICES ASSUME NEW q \in Records, NEW p \in Records, KindOf[p] = "company", p \in row'[q].links
                 PROVE  \/ row'[q].since = writes + 1
                        \/ p \in row[q].links /\ row'[q].since = row[q].since
      BY DEF AttachedBefore
    <3>1. CASE q = r
      <4>1. p \in Of(new, "company")
        BY <2>6, <2>10, <3>1 DEF Of
      <4>2. CASE Of(new, "company") = Of(row[r].links, "company")
        BY <2>6, <2>10, <3>1, <4>1, <4>2 DEF Of
      <4>3. CASE Of(new, "company") # Of(row[r].links, "company")
        BY <2>6, <2>10, <3>1, <4>3
      <4>4. QED
        BY <4>2, <4>3
    <3>2. CASE q # r
      BY <2>10, <3>2
    <3>3. QED
      BY <3>1, <3>2
  <2>16. QED
    BY <1>1, <2>9, <2>11, <2>12, <2>14, <2>15, WrittenKeepsInv
<1>6. QED
  BY <1>4, <1>5 DEF Change

\* A deletion, with all that goes with it, leaves no orphan.
LEMMA RemovalKeepsInv ==
    ASSUME Inv, NEW h \in Callers, call[h].at \in {"writing", "counting"},
           NEW r \in Records, Written(h, RowsWithout(r))
    PROVE  Inv'
<1>1. row' = RowsWithout(r) /\ Written(h, row')
  BY DEF Written
<1>2. ASSUME NEW q \in Records
      PROVE  /\ q \in Doomed(r) => row'[q] = Empty("gone")
             /\ q \notin Doomed(r) => row'[q] = [row[q] EXCEPT !.links = @ \ Doomed(r)]
  BY <1>1 DEF RowsWithout
<1>3. \A q \in Records : row[q] \in Row
  BY DEF Inv, TypeOK
<1>4. ASSUME NEW q \in Records, q \in Doomed(r)
      PROVE  /\ row'[q] \in Row /\ row'[q].status = "gone" /\ row'[q].links = {}
             /\ row'[q].stage = NoStage
  <2>1. row'[q] = Empty("gone")
    BY <1>2, <1>4
  <2>2. QED
    BY <2>1 DEF Empty, Row
<1>5. ASSUME NEW q \in Records, q \notin Doomed(r)
      PROVE  /\ row'[q] \in Row /\ row'[q].status = row[q].status
             /\ row'[q].links = row[q].links \ Doomed(r)
             /\ row'[q].stage = row[q].stage /\ row'[q].since = row[q].since
  <2>1. PICK links \in SUBSET Records : links = row[q].links \ Doomed(r)
    BY <1>3 DEF Row
  <2>2. row'[q] = [row[q] EXCEPT !.links = links]
    BY <1>2, <1>5, <2>1
  <2>3. QED
    BY <1>3, <2>1, <2>2 DEF Row
<1>6. row' \in [Records -> Row]
  BY <1>1, <1>4, <1>5 DEF RowsWithout
<1>7. \A q \in Records : row'[q].stage # NoStage <=> row'[q].status = "live" /\ KindOf[q] = "opportunity"
  BY <1>4, <1>5 DEF Inv, TypeOK, IsLive
<1>8. NoOrphan'
  <2> SUFFICES ASSUME NEW q \in Records, row'[q].status = "live"
               PROVE  /\ \A p \in row'[q].links : row'[p].status = "live"
                      /\ \A kind \in Schema[KindOf[q]].bound : Of(row'[q].links, kind) # {}
    BY DEF NoOrphan, IsLive
  <2>1. q \notin Doomed(r) /\ IsLive(q)
    BY <1>4, <1>5 DEF IsLive
  <2>2. \A p \in row[q].links : p \in Records /\ row[p].status = "live"
    BY <1>3, <2>1 DEF Inv, NoOrphan, IsLive, Row
  <2>3. \A p \in row'[q].links : row'[p].status = "live"
    BY <1>5, <2>1, <2>2
  <2>4. ASSUME NEW kind \in Schema[KindOf[q]].bound PROVE Of(row'[q].links, kind) # {}
    <3>1. PICK p \in row[q].links : KindOf[p] = kind
      BY <2>1 DEF Inv, NoOrphan, Of
    <3>2. p \notin Doomed(r)
      BY <2>1, <3>1, RemovalSpares DEF Inv
    <3>3. QED
      BY <1>5, <2>1, <3>1, <3>2 DEF Of
  <2>5. QED
    BY <2>3, <2>4
<1>9. AttachedBefore
  BY <1>4, <1>5 DEF AttachedBefore
<1>10. QED
  BY <1>1, <1>6, <1>7, <1>8, <1>9, WrittenKeepsInv

LEMMA RemovesKeepInv ==
    ASSUME Inv, NEW h \in Callers, Remove(h) \/ RemoveCompany(h)
    PROVE  Inv'
<1>1. call[h].at \in {"writing", "counting"}
  BY DEF Remove, RemoveCompany
<1>2. call[h] # Idle
  BY <1>1, Active
<1>3. call[h].id \in Records
  BY <1>2, CallFields DEF Inv
<1>4. NotWritten(h) \/ Written(h, RowsWithout(call[h].id))
  BY Zenon DEF Remove, RemoveCompany
<1>5. QED
  BY <1>1, <1>3, <1>4, EndKeepsInv, RemovalKeepsInv

\* An assessment makes four rows of four kinds, each with what its kind needs.
LEMMA IntakeKeepsInv ==
    ASSUME Inv, NEW h \in Callers, Intake(h)
    PROVE  Inv'
<1>1. PICK company \in Of(Fresh, "company"), contact \in Of(Fresh, "contact"),
           lead \in Of(Fresh, "lead"), activity \in Of(Fresh, "activity") :
         /\ row' = [r \in Records |->
                CASE r = company -> Unstaged({})
                  [] r \in {contact, lead} -> Unstaged({company})
                  [] r = activity -> Unstaged({company, contact})
                  [] OTHER -> row[r]]
         /\ call' = [call EXCEPT ![h] =
                [at |-> "auditing", op |-> "intake", actor |-> Nobody, id |-> lead,
                 links |-> {company}, stage |-> NoStage, was |-> Empty("unborn"),
                 company |-> {}, counts |-> [k \in Attached |-> -1], found |-> FALSE,
                 wrote |-> writes + 1]]
  BY Zenon DEF Intake
<1>2. call[h] = Idle /\ writes' = writes + 1 /\ UNCHANGED <<log, silent, moved>>
  BY DEF Intake, Free
<1>3. writes \in Nat /\ writes + 1 \in Nat
  BY DEF Inv, TypeOK
<1>4. /\ company \in Records /\ contact \in Records /\ lead \in Records /\ activity \in Records
      /\ KindOf[company] = "company" /\ KindOf[contact] = "contact"
      /\ KindOf[lead] = "lead" /\ KindOf[activity] = "activity"
  BY DEF Of, Fresh
<1> DEFINE New == {company, contact, lead, activity}
           c == [at |-> "auditing", op |-> "intake", actor |-> Nobody, id |-> lead,
                 links |-> {company}, stage |-> NoStage, was |-> Empty("unborn"),
                 company |-> {}, counts |-> [k \in Attached |-> -1], found |-> FALSE,
                 wrote |-> writes + 1]
<1>5. ASSUME NEW links \in SUBSET Records
      PROVE  /\ Unstaged(links) \in Row
             /\ Unstaged(links).status = "live" /\ Unstaged(links).links = links
             /\ Unstaged(links).stage = NoStage /\ Unstaged(links).since = writes + 1
  BY <1>3 DEF Unstaged, Row
<1>6. /\ row'[company] = Unstaged({})
      /\ row'[contact] = Unstaged({company})
      /\ row'[lead] = Unstaged({company})
      /\ row'[activity] = Unstaged({company, contact})
      /\ \A q \in Records \ New : row'[q] = row[q]
  BY <1>1, <1>4
<1>7. /\ row'[company] \in Row /\ row'[contact] \in Row /\ row'[lead] \in Row /\ row'[activity] \in Row
      /\ row'[company].links = {} /\ row'[contact].links = {company}
      /\ row'[lead].links = {company} /\ row'[activity].links = {company, contact}
  BY <1>4, <1>5, <1>6
<1>8. \A q \in New : row'[q].status = "live" /\ row'[q].stage = NoStage /\ row'[q].since = writes + 1
  BY <1>4, <1>5, <1>6
<1>9. row' \in [Records -> Row]
  <2>1. \A q \in Records : row'[q] \in Row
    BY <1>6, <1>7 DEF Inv, TypeOK
  <2>2. QED
    BY <1>1, <2>1
<1> HIDE DEF New
<1>10. \A q \in New : q \in Records /\ KindOf[q] # "opportunity"
  BY <1>4 DEF New
<1>11. \A q \in Records : row'[q].stage # NoStage <=> row'[q].status = "live" /\ KindOf[q] = "opportunity"
  BY <1>6, <1>8, <1>10 DEF Inv, TypeOK, IsLive
<1>12. NoOrphan'
  <2> SUFFICES ASSUME NEW q \in Records, row'[q].status = "live"
               PROVE  /\ \A p \in row'[q].links : row'[p].status = "live"
                      /\ \A kind \in Schema[KindOf[q]].bound : Of(row'[q].links, kind) # {}
    BY DEF NoOrphan, IsLive
  <2>1. \A p \in Records : row[p].status = "live" => row'[p].status = "live"
    BY <1>6, <1>8
  <2>2. CASE q \in New
    <3>1. row'[q].links \subseteq New
      BY <1>7, <2>2 DEF New
    <3>2. \A kind \in Schema[KindOf[q]].bound : Of(row'[q].links, kind) # {}
      BY <1>4, <1>7, <2>2, SchemaKinds DEF New, Of
    <3>3. QED
      BY <1>8, <3>1, <3>2
  <2>3. CASE q \notin New
    <3>1. row'[q] = row[q] /\ IsLive(q)
      BY <1>6, <2>3 DEF IsLive
    <3>2. \A p \in row[q].links : p \in Records /\ row[p].status = "live"
      BY <3>1 DEF Inv, TypeOK, Row, NoOrphan, IsLive
    <3>3. QED
      BY <2>1, <3>1, <3>2 DEF Inv, NoOrphan
  <2>4. QED
    BY <2>2, <2>3
<1>13. AttachedBefore
  BY <1>6, <1>8 DEF AttachedBefore
<1>14. Empty("unborn") \in Row /\ [k \in Attached |-> -1] \in [Attached -> {-1} \cup Nat]
  BY DEF Empty, Row
<1>15. c \in Call
  BY <1>3, <1>4, <1>14 DEF Call
<1>16. \A kind \in Attached : c.counts[kind] = -1
  OBVIOUS
<1>17. InputSound(c) /\ c.at = "auditing" /\ c.wrote = writes + 1
  BY DEF InputSound
<1>18. call' = [call EXCEPT ![h] = c]
  BY <1>1
<1> HIDE DEF c
<1>19. CountSound(c)
  BY <1>16, <1>17 DEF CountSound
<1>20. \A kind \in Attached : c.counts[kind] <= writes
  BY <1>3, <1>16
<1>21. call[h].at # "auditing" /\ moved' \subseteq moved \cup {writes + 1}
  BY <1>2 DEF Idle
<1>22. QED
  BY <1>2, <1>9, <1>11, <1>12, <1>13, <1>15, <1>17, <1>18, <1>19, <1>20, <1>21, WriteKeepsInv

-----------------------------------------------------------------------------
(* Audit events *)

\* A call that records its event, or is lost with it, leaves no write without.
LEMMA EventsKeepInv ==
    ASSUME Inv, NEW h \in Callers, call[h] # Idle, NEW c,
           UNCHANGED <<row, writes, moved>>,
           call' = [call EXCEPT ![h] = c],
           c = Idle \/ (c \in Call /\ CallSound(c)),
           log \subseteq log', silent \subseteq silent',
           \A e \in (log' \cup silent') \ (log \cup silent) :
              e \in [write : 1 .. writes, action : Actions],
           call[h].at = "auditing" => Event(call[h].wrote, "record") \in log' \cup silent'
    PROVE  Inv'
<1>1. call'[h] = c /\ \A g \in Callers \ {h} : call'[g] = call[g]
  BY DEF Inv, TypeOK
<1>2. log' \cup silent' \subseteq [write : 1 .. writes, action : Actions]
  BY DEF Inv, TypeOK
<1>3. TypeOK'
  BY <1>2 DEF Inv, TypeOK, IsLive
<1>4. NoOrphan'
  BY DEF Inv, NoOrphan, IsLive
<1>5. \A g \in Callers : call'[g] # Idle => CallSound(call[g])'
  <2> SUFFICES ASSUME NEW g \in Callers, call'[g] # Idle PROVE CallSound(call[g])'
    OBVIOUS
  <2>1. CallSound(call'[g])
    BY <1>1 DEF Inv
  <2>2. QED
    BY <2>1 DEF CallSound, InputSound, EventSound, CountSound
<1>6. AuditFaithful'
  <2>1. \A e \in log' : e.write \in 1 .. writes'
    BY <1>2
  <2>2. ASSUME NEW w \in 1 .. writes
        PROVE  \/ Event(w, "record") \in log' \cup silent'
               \/ \E g \in Callers : call'[g] # Idle /\ call'[g].wrote = w /\ call'[g].at = "auditing"
    <3>1. CASE Event(w, "record") \in log \cup silent
      BY <3>1
    <3>2. ASSUME NEW g \in Callers, call[g] # Idle, call[g].wrote = w, call[g].at = "auditing"
          PROVE  \/ call'[g] # Idle /\ call'[g].wrote = w /\ call'[g].at = "auditing"
                 \/ Event(w, "record") \in log' \cup silent'
      BY <1>1, <3>2
    <3>3. QED
      BY <3>1, <3>2 DEF Inv, AuditFaithful
  <2>3. QED
    BY <2>1, <2>2 DEF AuditFaithful
<1>7. QED
  BY <1>3, <1>4, <1>5, <1>6 DEF Inv

LEMMA AuditsKeepInv ==
    ASSUME Inv, NEW h \in Callers, Audit(h) \/ AuditStage(h)
    PROVE  Inv'
<1>1. call[h].at \in {"auditing", "auditingStage"} /\ UNCHANGED <<row, writes, moved>>
  BY DEF Audit, AuditStage
<1>2. call[h] # Idle
  BY <1>1, Active
<1>3. call[h] \in Call /\ CallSound(call[h])
  BY <1>2, CallFields DEF Inv
<1>4. PICK action \in Actions :
         /\ \/ log' = log \cup {Event(call[h].wrote, action)} /\ UNCHANGED silent
            \/ silent' = silent \cup {Event(call[h].wrote, action)} /\ UNCHANGED log
         /\ call[h].at = "auditing" => action = "record"
  BY DEF Audit, AuditStage, Emit, Actions
<1>5. PICK e : e = Event(call[h].wrote, action)
  OBVIOUS
<1>6. e \in [write : 1 .. writes, action : Actions]
  BY <1>1, <1>3, <1>5 DEF CallSound, EventSound, Event
<1>7. /\ log \subseteq log' /\ silent \subseteq silent' /\ e \in log' \cup silent'
      /\ log' \cup silent' = log \cup silent \cup {e}
  BY <1>4, <1>5
<1>8. call[h].at = "auditing" => Event(call[h].wrote, "record") \in log' \cup silent'
  BY <1>4, <1>5, <1>7
<1>9. CASE call' = [call EXCEPT ![h] = Idle]
  BY <1>1, <1>2, <1>6, <1>7, <1>8, <1>9, EventsKeepInv
<1>10. CASE call' = [call EXCEPT ![h].at = "auditingStage"]
  <2> DEFINE c == [call[h] EXCEPT !.at = "auditingStage"]
  <2>1. /\ c \in Call
        /\ c.op = call[h].op /\ c.id = call[h].id /\ c.links = call[h].links /\ c.stage = call[h].stage
        /\ c.counts = call[h].counts /\ c.found = call[h].found /\ c.wrote = call[h].wrote
        /\ c.at = "auditingStage"
    BY <1>3 DEF Call
  <2>2. call' = [call EXCEPT ![h] = c]
    BY <1>10
  <2> HIDE DEF c
  <2>3. InputSound(c) /\ EventSound(c) /\ CountSound(c)
    BY <1>1, <1>3, <2>1 DEF CallSound, InputSound, EventSound, CountSound
  <2>4. CallSound(c)
    BY <1>3, <2>1, <2>3 DEF CallSound
  <2>5. QED
    BY <1>1, <1>2, <1>6, <1>7, <1>8, <2>1, <2>2, <2>4, EventsKeepInv
<1>11. call' = [call EXCEPT ![h] = Idle] \/ call' = [call EXCEPT ![h].at = "auditingStage"]
  BY Zenon DEF Audit, AuditStage, Goto, End
<1>12. QED
  BY <1>9, <1>10, <1>11

LEMMA LoseKeepsInv ==
    ASSUME Inv, NEW h \in Callers, Lose(h)
    PROVE  Inv'
<1>1. call[h] # Idle /\ call' = [call EXCEPT ![h] = Idle] /\ UNCHANGED <<row, writes, log, moved>>
  BY DEF Lose, End
<1>2. call[h] \in Call /\ CallSound(call[h])
  BY <1>1, CallFields DEF Inv
<1>3. CASE call[h].at = "auditing"
  <2>1. silent' = silent \cup {Event(call[h].wrote, a) : a \in Actions}
    BY <1>3 DEF Lose
  <2>2. call[h].wrote \in 1 .. writes
    BY <1>2, <1>3 DEF CallSound, EventSound
  <2>3. \A a \in Actions : Event(call[h].wrote, a) \in [write : 1 .. writes, action : Actions]
    BY <2>2 DEF Event
  <2>4. Event(call[h].wrote, "record") \in silent'
    BY <2>1 DEF Actions
  <2>5. \A e \in silent' \ silent : e \in [write : 1 .. writes, action : Actions]
    BY <2>1, <2>3
  <2>6. silent \subseteq silent'
    BY <2>1
  <2>7. QED
    BY <1>1, <2>4, <2>5, <2>6, EventsKeepInv
<1>4. CASE call[h].at = "auditingStage"
  <2>1. silent' = silent \cup {Event(call[h].wrote, "stage")}
    BY <1>4 DEF Lose
  <2>2. call[h].wrote \in 1 .. writes
    BY <1>2, <1>4 DEF CallSound, EventSound
  <2>3. Event(call[h].wrote, "stage") \in [write : 1 .. writes, action : Actions]
    BY <2>2 DEF Event, Actions
  <2>4. QED
    BY <1>1, <1>4, <2>1, <2>3, EventsKeepInv
<1>5. CASE call[h].at \notin {"auditing", "auditingStage"}
  <2>1. silent' = silent
    BY <1>5 DEF Lose
  <2>2. QED
    BY <1>1, <1>5, <2>1, EventsKeepInv
<1>6. QED
  BY <1>3, <1>4, <1>5

-----------------------------------------------------------------------------
LEMMA NextKeepsInv == Inv /\ [Next]_vars => Inv'
<1> SUFFICES ASSUME Inv, [Next]_vars PROVE Inv'
  OBVIOUS
<1>1. CASE UNCHANGED vars
  BY <1>1 DEF Inv, TypeOK, NoOrphan, AuditFaithful, CallSound, InputSound, EventSound, CountSound,
              IsLive, vars
<1>2. ASSUME NEW h \in Callers,
             \/ Create(h) \/ Update(h) \/ Delete(h)
             \/ ReadPrevious(h) \/ Locate(h) \/ Check(h)
             \/ Insert(h) \/ Change(h) \/ Remove(h) \/ Count(h) \/ RemoveCompany(h)
             \/ Intake(h)
             \/ Audit(h) \/ AuditStage(h) \/ Lose(h)
      PROVE  Inv'
  BY <1>2, RequestsKeepInv, ReadsKeepInv, CheckKeepsInv, InsertKeepsInv, ChangeKeepsInv,
     RemovesKeepInv, CountKeepsInv, IntakeKeepsInv, AuditsKeepInv, LoseKeepsInv
<1>3. QED
  BY <1>1, <1>2 DEF Next

LEMMA InvAlways == Spec => []Inv
<1>1. QED
  BY InitInv, NextKeepsInv, PTL DEF Spec

\* Rows, calls and audit events keep their types; exactly the opportunities
\* there are have a stage.
THEOREM TypeCorrect == Spec => []TypeOK
<1>1. Inv => TypeOK
  BY DEF Inv
<1>2. QED
  BY <1>1, InvAlways, PTL

\* Creates, updates, cascading deletions and the intake, in any order and
\* overlap, leave no record without what it refers to.
THEOREM NoOrphans == Spec => []NoOrphan
<1>1. Inv => NoOrphan
  BY DEF Inv
<1>2. QED
  BY <1>1, InvAlways, PTL

\* Writes are audited unless recording failed, and nothing else is.
THEOREM AuditIsFaithful == Spec => []AuditFaithful
<1>1. Inv => AuditFaithful
  BY DEF Inv
<1>2. QED
  BY <1>1, InvAlways, PTL

\* A step of a call that counted and now has written is its deletion.
LEMMA LossIsLate ==
    ASSUME Inv, [Next]_vars, NEW h \in Callers, NEW r \in Records,
           call[h] # Idle, call[h].at = "counting", writes' # writes,
           call'[h] # Idle, call'[h].at = "auditing",
           KindOf[r] \in Attached, call[h].id \in row[r].links
    PROVE  /\ call[h].counts[KindOf[r]] # -1
           /\ row[r].since > call[h].counts[KindOf[r]]
<1>1. CallSound(call[h]) /\ KindOf[call[h].id] = "company"
  BY DEF Inv, CallSound, CountSound
<1>2. RemoveCompany(h)
  <2>1. PICK g \in Callers :
             \/ Insert(g) \/ Change(g) \/ Remove(g) \/ RemoveCompany(g) \/ Intake(g)
    BY DEF Next, vars, Create, Update, Delete, Begin, ReadPrevious, Locate, Check, Count, Audit,
           AuditStage, Lose
  <2>2. call'[h] # call[h]
    OBVIOUS
  <2>3. \A k \in Callers \ {g} : call'[k] = call[k]
    BY <2>1 DEF Inv, TypeOK, Insert, Change, Remove, RemoveCompany, Intake, Written, NotWritten, End
  <2>4. g = h
    BY <2>2, <2>3
  <2>5. call[h].at # "writing" /\ call[h] # Idle
    OBVIOUS
  <2>6. QED
    BY <2>1, <2>4, <2>5 DEF Insert, Change, Remove, Intake, Free
<1>3. \A k \in Attached : call[h].counts[k] # -1
  BY <1>1, <1>2, SchemaKinds DEF RemoveCompany
<1>4. ~call[h].found
  BY <1>2 DEF RemoveCompany, NotWritten
<1>5. QED
  BY <1>1, <1>3, <1>4 DEF CallSound, CountSound

\* What a company's deletion takes or cuts loose came to the company after that
\* call had counted its kind (PrismaCompanyReadPort.delete).
THEOREM LossesNeedRaces == Spec => LossNeedsRace
<1>1. Inv /\ [Next]_vars =>
        [\A h \in Callers : \A r \in Records :
         /\ call[h] # Idle /\ call[h].at = "counting" /\ writes' # writes
         /\ call'[h] # Idle /\ call'[h].at = "auditing"
         /\ KindOf[r] \in Attached
         /\ call[h].id \in row[r].links
         => /\ call[h].counts[KindOf[r]] # -1
            /\ row[r].since > call[h].counts[KindOf[r]]]_vars
  BY LossIsLate
<1>2. QED
  BY <1>1, InvAlways, PTL DEF Spec, LossNeedsRace
=============================================================================
