-------------------------- MODULE ComposerViewProofs --------------------------
(***************************************************************************)
(* The composer, for any versions and values and any number of edits,      *)
(* clicks and navigations.  The inductive invariant has four parts: that   *)
(* an instance of the page waits for at most one submission, under its own *)
(* key; that those it gave up, as far as they can still buy, are under the *)
(* same key; that a key not yet spent leaves room for one purchase; and    *)
(* that the frozen text is the text of the page's version, rendered from   *)
(* the values of the snapshot.                                             *)
(***************************************************************************)
EXTENDS ComposerView, SequenceTheorems, FiniteSetTheorems, TLAPS

USE VersionsAssumption, BoundsAssumption

InFlight == sent \cup {a.req : a \in replies}

\* One submission of an instance at a time, in one place, under its key.
FlightInv ==
  /\ \A r \in sent, a \in replies : r.mount # a.req.mount
  /\ \A r, s \in sent : r.mount = s.mount => r = s
  /\ \A a, b \in replies : a.req.mount = b.req.mount => a = b
  /\ \A r \in InFlight :
       /\ r.mount <= mount
       /\ r.mount = mount => r.key = idempotencyKey
       /\ r.mount = mount /\ page # None => submitting

CanStillBuy(r) == rows[r.key] = Blank

\* What an instance gave up and may still buy has the key of all it can buy.
LateInv ==
  /\ \A r \in late : /\ r.mount <= mount
                     /\ r.mount = mount /\ CanStillBuy(r) => r.key = idempotencyKey
  /\ \A r, s \in sent \cup late :
       r.mount = s.mount /\ CanStillBuy(r) /\ CanStillBuy(s) => r.key = s.key
  /\ \A a \in replies : a.outcome = "conflict" => rows[a.req.key] # Blank

\* No more keys than moves and submissions that have come to an end.
CountInv ==
  /\ mount <= 1 + moves /\ idempotencyKey <= lastKey
  /\ lastKey <= 1 + moves + clicks
  /\ submitting => lastKey <= moves + clicks

BoughtBy(m) == {i \in DOMAIN bought : bought[i].mount = m}

\* A key that is not spent leaves room for one more purchase.
RoomInv ==
  /\ \A i \in DOMAIN bought : bought[i].mount <= mount
  /\ SecondPurchaseIsDeliberate
  /\ \A r \in sent \cup late : rows[r.key] = Blank =>
       Cardinality(BoughtBy(r.mount)) <= conflicts[r.mount]
  /\ rows[idempotencyKey] = Blank =>
       Cardinality(BoughtBy(mount)) <= conflicts[mount]

Matches(text, version, val) ==
  text.of # None => text.of = version /\ text.value = val

\* What the page of an instance with one version shows.
PageInv ==
  /\ loading => ~promptTouched /\ value = ""
  /\ fetching /\ plain => loading
  /\ plain /\ page # None /\ ~loading => content = page
  /\ plain /\ page # None /\ ~loading /\ content \notin WithVariable => value = ""
  /\ plain /\ page # None /\ promptTouched /\ promptOverride.of # None =>
       /\ promptOverride.of = content
       /\ IF content \in WithVariable
            THEN promptOverrideValues = <<promptOverride.value>>
            ELSE promptOverride.value = ""

\* What it sends, and what was bought of it.
TextInv ==
  /\ \A r \in sent \cup late : r.plain =>
       /\ Resolvable(r.payload)
       /\ Matches(r.payload.prompt, r.payload.version, r.payload.value)
  /\ TextMatchesRecord

IInv == TypeOK /\ FlightInv /\ LateInv /\ CountInv /\ RoomInv /\ PageInv /\ TextInv

-----------------------------------------------------------------------------
(* Texts and snapshots.                                                    *)

LEMMA TextTypes ==
  ASSUME TypeOK
  PROVE  /\ Blank \in Texts /\ Rendered \in Texts /\ EffectivePrompt \in Texts
         /\ Edited \in Texts /\ Edited.of = EffectivePrompt.of
         /\ Edited.value = EffectivePrompt.value
         /\ Snapshot \in Snapshots
<1>1. Blank \in Texts
  BY DEF Blank, Texts
<1>2. Rendered \in Texts
  BY <1>1 DEF TypeOK, FieldsOK, Rendered, Render, Texts
<1>3. EffectivePrompt \in Texts
  BY <1>2 DEF TypeOK, FieldsOK, EffectivePrompt
<1>4. /\ Edited \in Texts /\ Edited.of = EffectivePrompt.of
      /\ Edited.value = EffectivePrompt.value
  BY <1>3 DEF Edited, Texts
<1>5. Snapshot \in Snapshots
  BY DEF TypeOK, FieldsOK, Snapshot, Snapshots
<1> QED
  BY <1>1, <1>2, <1>3, <1>4, <1>5

LEMMA KeyFacts ==
  /\ Keys \subseteq Nat \ {0} /\ 1 \in Keys
  /\ \A n \in Nat : 1 <= n /\ n <= 1 + MaxMoves + MaxClicks => n \in Keys
BY DEF Keys

LEMMA PayloadIsNoBlank == ASSUME NEW p \in Payloads PROVE p # Blank
<1>1. DOMAIN p = {"version", "value", "prompt"}
  BY DEF Payloads
<1>2. DOMAIN Blank = {"of", "value", "edited"}
  BY DEF Blank
<1> QED
  BY <1>1, <1>2

LEMMA InitInvariant == Init => IInv
<1> SUFFICES ASSUME Init PROVE IInv
  OBVIOUS
<1>1. /\ bought = <<>> /\ sent = {} /\ replies = {} /\ late = {}
      /\ rows = [k \in Keys |-> Blank]
  BY DEF Init
<1>2. bought \in Seq(Purchases) /\ DOMAIN bought = {} /\ InFlight = {}
  BY <1>1 DEF InFlight
<1>3. /\ mount = 1 /\ idempotencyKey = 1 /\ lastKey = 1
      /\ edits = 0 /\ clicks = 0 /\ moves = 0
      /\ conflicts = [m \in Keys |-> 0] /\ ~submitting
  BY DEF Init
<1>4. WireOK
  BY <1>1, <1>2 DEF WireOK
<1>5. FieldsOK /\ FlagsOK
  BY DEF Init, FieldsOK, FlagsOK, Blank, Texts, Snapshots
<1>6. CountsOK
  BY <1>3, KeyFacts DEF CountsOK
<1>7. FlightInv /\ TextInv /\ LateInv
  BY <1>1, <1>2 DEF FlightInv, LateInv, TextInv, TextMatchesRecord
<1>8. CountInv
  BY <1>3 DEF CountInv
<1>9. PageInv
  BY DEF Init, PageInv, Blank
<1>10. RoomInv
  <2>1. \A m \in Keys : BoughtBy(m) = {} /\ conflicts[m] = 0
    BY <1>2, <1>3 DEF BoughtBy
  <2>2. \A m \in Keys : Cardinality(BoughtBy(m)) = 0
    BY <2>1, FS_EmptySet
  <2>3. SecondPurchaseIsDeliberate
    BY <2>1, <2>2 DEF SecondPurchaseIsDeliberate, BoughtBy
  <2>4. Cardinality(BoughtBy(mount)) <= conflicts[mount]
    BY <1>6, <2>1, <2>2 DEF CountsOK
  <2>5. QED
    BY <1>1, <1>2, <2>3, <2>4 DEF RoomInv
<1> QED
  BY <1>4, <1>5, <1>6, <1>7, <1>8, <1>9, <1>10 DEF IInv, TypeOK

-----------------------------------------------------------------------------
(* The form: neither the wire nor the keys are touched.                    *)

LEMMA FormStep ==
  ASSUME IInv, FormEdit, FieldsOK', promptTouched' \in BOOLEAN, PageInv'
  PROVE  IInv'
<1>1. FlightInv' /\ LateInv'
  BY DEF IInv, FlightInv, InFlight, LateInv, CanStillBuy, FormEdit, wireVars
<1>2. CountInv'
  BY DEF IInv, CountInv, FormEdit
<1>3. RoomInv'
  BY DEF IInv, RoomInv, BoughtBy, SecondPurchaseIsDeliberate, FormEdit, wireVars
<1>4. TextInv'
  BY DEF IInv, TextInv, TextMatchesRecord, FormEdit, wireVars
<1>5. WireOK' /\ FlagsOK'
  BY DEF IInv, TypeOK, WireOK, FlagsOK, FormEdit, wireVars
<1>6. CountsOK'
  <2>1. edits' \in 0..MaxEdits
    BY DEF IInv, TypeOK, CountsOK, FormEdit
  <2>2. QED
    BY <2>1 DEF IInv, TypeOK, CountsOK, FormEdit
<1> QED
  BY <1>1, <1>2, <1>3, <1>4, <1>5, <1>6 DEF IInv, TypeOK

LEMMA FillInStep ==
  ASSUME IInv, NEW v \in Values \cup {""}, FillIn(v)
  PROVE  IInv'
<1>1. FieldsOK' /\ promptTouched' \in BOOLEAN
  BY DEF IInv, TypeOK, FieldsOK, FlagsOK, FillIn, FormEdit, promptVars
<1>2. PageInv'
  BY DEF IInv, PageInv, FillIn, FormEdit, promptVars
<1> QED
  BY <1>1, <1>2, FormStep DEF FillIn

LEMMA FreezeStep ==
  ASSUME IInv, NEW text \in {Edited, Blank}, FormEdit, Freeze(text)
  PROVE  IInv'
<1>1. text \in Texts /\ Snapshot \in Snapshots
  BY TextTypes DEF IInv
<1>2. /\ loading' = loading /\ ~loading /\ value' = value /\ page' = page
      /\ fetching' = fetching /\ plain' = plain /\ content' = content
      /\ promptTouched' = TRUE /\ promptOverride' = text
      /\ promptOverrideValues' =
           IF promptTouched THEN promptOverrideValues ELSE Snapshot
  BY DEF FormEdit, Freeze
<1>3. FieldsOK' /\ promptTouched' \in BOOLEAN
  BY <1>1, <1>2 DEF IInv, TypeOK, FieldsOK
<1>4. PageInv'
  <2>1. ASSUME plain, page # None, text.of # None
        PROVE  /\ text.of = content
               /\ IF content \in WithVariable
                    THEN promptOverrideValues' = <<text.value>>
                    ELSE text.value = ""
    <3>1. text.of = EffectivePrompt.of /\ text.value = EffectivePrompt.value
      <4>1. Blank.of = None
        BY DEF Blank
      <4>2. text = Edited
        BY <2>1, <4>1
      <4>3. QED
        BY <4>2, TextTypes DEF IInv
    <3>2. CASE promptTouched
      BY <1>2, <2>1, <3>1, <3>2 DEF IInv, PageInv, EffectivePrompt
    <3>3. CASE ~promptTouched
      <4>1. EffectivePrompt = Rendered
        BY <3>3 DEF EffectivePrompt
      <4>2. Rendered.of # None
        BY <2>1, <3>1, <4>1
      <4>3. Rendered.of = content /\ Rendered.value = value
        BY <4>2 DEF Rendered, Render, Blank
      <4>4. content \notin WithVariable => value = ""
        BY <1>2, <2>1 DEF IInv, PageInv
      <4>5. QED
        BY <1>2, <3>1, <3>3, <4>1, <4>3, <4>4 DEF Snapshot
    <3>4. QED
      BY <3>2, <3>3
  <2>2. QED
    BY <1>2, <2>1 DEF IInv, PageInv
<1> QED
  BY <1>3, <1>4, FormStep

LEMMA ResetStep ==
  ASSUME IInv, ResetPrompt
  PROVE  IInv'
<1>1. Blank \in Texts /\ <<"none">> \in Snapshots
  BY DEF Blank, Texts, Snapshots
<1>2. FieldsOK' /\ promptTouched' \in BOOLEAN
  BY <1>1 DEF IInv, TypeOK, FieldsOK, ResetPrompt, FormEdit
<1>3. PageInv'
  BY DEF IInv, PageInv, ResetPrompt, FormEdit
<1> QED
  BY <1>2, <1>3, FormStep DEF ResetPrompt

-----------------------------------------------------------------------------
(* Coming and going.                                                       *)

LEMMA OpenStep ==
  ASSUME IInv, NEW v \in Versions, Open(v)
  PROVE  IInv'
<1>1. /\ rows' = rows /\ bought' = bought /\ sent' = sent /\ replies' = replies
      /\ late' = late /\ conflicts' = conflicts /\ edits' = edits /\ clicks' = clicks
  BY DEF Open, Move, wireVars
<1>2. /\ mount' = mount + 1 /\ lastKey' = lastKey + 1
      /\ idempotencyKey' = lastKey + 1 /\ moves' = moves + 1
      /\ moves < MaxMoves /\ submitting' = FALSE
  BY DEF Open, Move, Fresh
<1>3. /\ page' = v /\ fetching' = TRUE /\ loading' = TRUE /\ content' = None
      /\ value' = "" /\ promptTouched' = FALSE /\ promptOverride' = Blank
      /\ promptOverrideValues' = <<"none">> /\ plain' = TRUE
  BY DEF Open, Fresh
<1>4. /\ mount \in Nat \ {0} /\ lastKey \in Nat \ {0} /\ idempotencyKey \in Nat
      /\ moves \in Nat /\ clicks \in Nat /\ clicks <= MaxClicks
      /\ edits \in 0..MaxEdits /\ conflicts \in [Keys -> Nat]
  BY KeyFacts DEF IInv, TypeOK, CountsOK
<1>5. mount <= 1 + moves /\ lastKey <= 1 + moves + clicks
  BY DEF IInv, CountInv
<1>6. CountInv'
  <2>1. mount' <= 1 + moves' /\ lastKey' <= 1 + moves' + clicks'
        /\ idempotencyKey' <= lastKey'
    BY <1>1, <1>2, <1>4, <1>5
  <2>2. ~submitting'
    BY <1>2
  <2>3. QED
    BY <2>1, <2>2 DEF CountInv
<1>7. mount' \in Keys /\ lastKey' \in Keys /\ idempotencyKey' \in Keys
  <2>1. /\ 1 <= mount + 1 /\ mount + 1 <= 1 + MaxMoves + MaxClicks
        /\ 1 <= lastKey + 1 /\ lastKey + 1 <= 1 + MaxMoves + MaxClicks
        /\ mount + 1 \in Nat /\ lastKey + 1 \in Nat
    BY <1>2, <1>4, <1>5
  <2>2. QED
    BY <1>2, <2>1, KeyFacts
<1>8. CountsOK'
  <2>1. clicks' \in 0..MaxClicks /\ moves' \in 0..MaxMoves
    BY <1>1, <1>2, <1>4
  <2>2. QED
    BY <1>1, <1>4, <1>7, <2>1 DEF CountsOK
<1>9. WireOK'
  BY <1>1 DEF IInv, TypeOK, WireOK
<1>10. FlagsOK'
  BY <1>2, <1>3 DEF FlagsOK
<1>11. FieldsOK'
  BY <1>3 DEF FieldsOK, Blank, Texts, Snapshots
<1>12. PageInv'
  BY <1>3 DEF PageInv
<1>13. TextInv'
  BY <1>1 DEF IInv, TextInv, TextMatchesRecord
<1>14. InFlight' = InFlight /\ \A r \in InFlight : r.mount <= mount /\ r.mount \in Nat
  <2>1. \A r \in InFlight : r.mount \in Keys
    BY DEF IInv, TypeOK, WireOK, InFlight, Requests
  <2>2. QED
    BY <1>1, <2>1, KeyFacts DEF IInv, FlightInv, InFlight
<1>15. FlightInv'
  <2>1. \A r \in InFlight' : r.mount <= mount' /\ r.mount # mount'
    BY <1>2, <1>4, <1>14
  <2>2. QED
    BY <1>1, <2>1 DEF IInv, FlightInv
<1>l. LateInv'
  <2>1. \A r \in late : r.mount <= mount /\ r.mount \in Nat
    <3>1. \A r \in late : r.mount \in Keys
      BY DEF IInv, TypeOK, WireOK, Requests
    <3>2. QED
      BY <3>1, KeyFacts DEF IInv, LateInv
  <2>2. \A r \in late : r.mount <= mount' /\ r.mount # mount'
    BY <1>2, <1>4, <2>1
  <2>3. QED
    BY <1>1, <2>2 DEF IInv, LateInv, CanStillBuy
<1>16. RoomInv'
  <2>1. \A i \in DOMAIN bought : bought[i].mount <= mount /\ bought[i].mount \in Nat
    <3>1. \A i \in DOMAIN bought : bought[i] \in Purchases
      BY ElementOfSeq DEF IInv, TypeOK, WireOK
    <3>2. \A i \in DOMAIN bought : bought[i].mount \in Keys
      BY <3>1 DEF Purchases
    <3>3. QED
      BY <3>2, KeyFacts DEF IInv, RoomInv
  <2>2. BoughtBy(mount + 1) = {}
    BY <1>4, <2>1 DEF BoughtBy
  <2>3. Cardinality(BoughtBy(mount + 1)) = 0
    BY <2>2, FS_EmptySet
  <2>4. mount + 1 \in Keys
    BY <1>2, <1>7
  <2>5. Cardinality(BoughtBy(mount + 1)) <= conflicts[mount + 1]
    BY <1>4, <2>3, <2>4
  <2>6. \A i \in DOMAIN bought : bought[i].mount <= mount + 1
    BY <1>4, <2>1
  <2>7. QED
    BY <1>1, <1>2, <2>5, <2>6
       DEF IInv, RoomInv, BoughtBy, SecondPurchaseIsDeliberate
<1> QED
  BY <1>6, <1>8, <1>9, <1>10, <1>11, <1>12, <1>13, <1>15, <1>l, <1>16
     DEF IInv, TypeOK

\* The page of an instance that stays, or is left.
LEMMA StayStep ==
  ASSUME IInv, NEW p \in Versions \cup {None}, p # page, page' = p, Move,
         fetching' \in BOOLEAN, fetching' <=> p # None,
         plain' \in BOOLEAN, plain' => plain /\ p = None,
         page # None,
         UNCHANGED <<wireVars, mount, loading, fieldVars, idempotencyKey,
                     lastKey, submitting, conflicts>>
  PROVE  IInv'
<1>1. /\ rows' = rows /\ bought' = bought /\ sent' = sent /\ replies' = replies
      /\ late' = late /\ mount' = mount /\ idempotencyKey' = idempotencyKey
      /\ lastKey' = lastKey /\ submitting' = submitting
      /\ conflicts' = conflicts /\ edits' = edits /\ clicks' = clicks
      /\ moves < MaxMoves /\ moves' = moves + 1
  BY DEF Move, wireVars
<1>2. /\ loading' = loading /\ content' = content /\ value' = value
      /\ promptTouched' = promptTouched /\ promptOverride' = promptOverride
      /\ promptOverrideValues' = promptOverrideValues
  BY DEF fieldVars, promptVars
<1>3. WireOK' /\ FieldsOK'
  BY <1>1, <1>2 DEF IInv, TypeOK, WireOK, FieldsOK
<1>4. FlagsOK'
  BY <1>1, <1>2 DEF IInv, TypeOK, FlagsOK
<1>5. moves \in 0..MaxMoves /\ clicks \in Nat /\ lastKey \in Nat /\ mount \in Nat
  BY KeyFacts DEF IInv, TypeOK, CountsOK
<1>6. CountsOK'
  <2>1. moves' \in 0..MaxMoves
    BY <1>1, <1>5
  <2>2. QED
    BY <1>1, <2>1 DEF IInv, TypeOK, CountsOK
<1>7. CountInv'
  <2>1. /\ mount <= 1 + moves => mount' <= 1 + moves'
        /\ lastKey <= 1 + moves + clicks => lastKey' <= 1 + moves' + clicks'
        /\ lastKey <= moves + clicks => lastKey' <= moves' + clicks'
    BY <1>1, <1>5
  <2>2. QED
    BY <1>1, <2>1 DEF IInv, CountInv
<1>8. FlightInv' /\ LateInv'
  BY <1>1 DEF IInv, FlightInv, InFlight, LateInv, CanStillBuy
<1>9. RoomInv'
  BY <1>1 DEF IInv, RoomInv, BoughtBy, SecondPurchaseIsDeliberate
<1>10. TextInv'
  BY <1>1 DEF IInv, TextInv, TextMatchesRecord
<1>11. PageInv'
  <2>1. ~(plain' /\ page' # None) /\ ~(fetching' /\ plain')
    OBVIOUS
  <2>2. loading => ~promptTouched /\ value = ""
    BY DEF IInv, PageInv
  <2>3. loading' => ~promptTouched' /\ value' = ""
    <3>1. loading' = loading /\ promptTouched' = promptTouched /\ value' = value
      BY <1>2
    <3>2. CASE loading'
      BY <2>2, <3>1, <3>2
    <3>3. CASE ~loading'
      BY <3>3
    <3>4. QED
      BY <3>2, <3>3
  <2>4. QED
    BY <2>1, <2>3 DEF PageInv
<1> QED
  BY <1>3, <1>4, <1>6, <1>7, <1>8, <1>9, <1>10, <1>11 DEF IInv, TypeOK

LEMMA LoadStep ==
  ASSUME IInv, NEW ok \in BOOLEAN, LoadReturns(ok)
  PROVE  IInv'
<1>1. /\ rows' = rows /\ bought' = bought /\ sent' = sent /\ replies' = replies
      /\ late' = late /\ mount' = mount /\ idempotencyKey' = idempotencyKey /\ page' = page
      /\ lastKey' = lastKey /\ submitting' = submitting
      /\ conflicts' = conflicts /\ edits' = edits /\ clicks' = clicks
      /\ moves' = moves
  BY DEF LoadReturns, wireVars, bounds
<1>2. /\ fetching /\ ~fetching' /\ ~loading' /\ promptTouched' = promptTouched
      /\ promptOverride' = promptOverride
      /\ promptOverrideValues' = promptOverrideValues
      /\ fetching' \in BOOLEAN /\ loading' \in BOOLEAN
      /\ IF ok THEN content' = page /\ value' = ""
               ELSE content' = content /\ value' = value
  BY DEF LoadReturns, promptVars
<1>3. plain' \in BOOLEAN /\ (plain' <=> plain /\ ok)
  BY DEF LoadReturns, IInv, TypeOK, FlagsOK
<1>4. FieldsOK'
  BY <1>1, <1>2 DEF IInv, TypeOK, FieldsOK
<1>5. WireOK' /\ CountsOK'
  BY <1>1 DEF IInv, TypeOK, WireOK, CountsOK
<1>6. FlagsOK'
  BY <1>1, <1>2, <1>3 DEF IInv, TypeOK, FlagsOK
<1>7. FlightInv' /\ LateInv' /\ CountInv'
  BY <1>1 DEF IInv, FlightInv, InFlight, LateInv, CanStillBuy, CountInv
<1>8. RoomInv' /\ TextInv'
  BY <1>1 DEF IInv, RoomInv, BoughtBy, SecondPurchaseIsDeliberate, TextInv,
              TextMatchesRecord
<1>9. PageInv'
  <2>1. plain => ~promptTouched
    BY <1>2 DEF IInv, PageInv
  <2>2. QED
    BY <1>1, <1>2, <1>3, <2>1 DEF PageInv
<1> QED
  BY <1>4, <1>5, <1>6, <1>7, <1>8, <1>9 DEF IInv, TypeOK

-----------------------------------------------------------------------------
(* Submission.                                                             *)

LEMMA SubmitStep ==
  ASSUME IInv, Submit
  PROVE  IInv'
<1> DEFINE r == [mount |-> mount, click |-> clicks + 1, key |-> idempotencyKey,
                 plain |-> plain,
                 payload |-> [version |-> page, value |-> value,
                              prompt |-> EffectivePrompt]]
<1>1. /\ sent' = sent \cup {r} /\ clicks' = clicks + 1 /\ clicks < MaxClicks
      /\ rows' = rows /\ bought' = bought /\ replies' = replies /\ late' = late
      /\ mount' = mount /\ idempotencyKey' = idempotencyKey /\ page' = page
      /\ lastKey' = lastKey /\ conflicts' = conflicts /\ edits' = edits
      /\ moves' = moves
  BY DEF Submit
<1>2. /\ ~submitting /\ submitting' = TRUE /\ page # None /\ ~loading
      /\ ~Missing /\ ~PromptStale
      /\ fetching' = fetching /\ loading' = loading /\ plain' = plain
      /\ content' = content /\ value' = value
      /\ promptTouched' = promptTouched /\ promptOverride' = promptOverride
      /\ promptOverrideValues' = promptOverrideValues
  BY DEF Submit, CanSubmit, fieldVars, promptVars
<1>3. clicks \in Nat /\ clicks + 1 \in 1..MaxClicks /\ moves \in Nat
      /\ lastKey \in Nat
  BY <1>1, KeyFacts DEF IInv, TypeOK, CountsOK
<1>4. r.payload \in Payloads
  BY <1>2, TextTypes DEF IInv, TypeOK, FieldsOK, Payloads
<1>5. r \in Requests
  BY <1>3, <1>4 DEF IInv, TypeOK, CountsOK, FlagsOK, Requests
<1>6. /\ r.mount = mount /\ r.key = idempotencyKey /\ r.plain = plain
      /\ r.payload.version = page /\ r.payload.value = value
      /\ r.payload.prompt = EffectivePrompt
  OBVIOUS
<1> HIDE DEF r
<1>7. WireOK' /\ FieldsOK'
  BY <1>1, <1>2, <1>5 DEF IInv, TypeOK, WireOK, FieldsOK
<1>8. FlagsOK'
  BY <1>2 DEF IInv, TypeOK, FlagsOK
<1>9. CountsOK'
  <2>1. clicks' \in 0..MaxClicks
    BY <1>1, <1>3
  <2>2. QED
    BY <1>1, <2>1 DEF IInv, TypeOK, CountsOK
<1>10. CountInv'
  <2>1. /\ mount' <= 1 + moves' /\ idempotencyKey' <= lastKey'
        /\ lastKey <= 1 + moves + clicks
    BY <1>1 DEF IInv, CountInv
  <2>2. lastKey' <= moves' + clicks' /\ lastKey' <= 1 + moves' + clicks'
    BY <1>1, <1>3, <2>1
  <2>3. QED
    BY <2>1, <2>2 DEF CountInv
<1>11. FlightInv'
  <2>1. InFlight' = InFlight \cup {r}
    BY <1>1 DEF InFlight
  <2>2. \A s \in InFlight : s.mount # mount
    BY <1>2 DEF IInv, FlightInv
  <2>3. \A s \in sent : s.mount # r.mount
    BY <1>6, <2>2 DEF InFlight
  <2>4. \A a \in replies : a.req.mount # r.mount
    BY <1>6, <2>2 DEF InFlight
  <2>5. r.mount <= mount
    BY <1>6, KeyFacts DEF IInv, TypeOK, CountsOK
  <2>6. \A s \in InFlight' : /\ s.mount <= mount'
                             /\ s.mount = mount' => s.key = idempotencyKey'
    BY <1>1, <1>6, <2>1, <2>5 DEF IInv, FlightInv
  <2>7. /\ \A s \in sent', a \in replies' : s.mount # a.req.mount
        /\ \A s, u \in sent' : s.mount = u.mount => s = u
        /\ \A a, b \in replies' : a.req.mount = b.req.mount => a = b
    BY <1>1, <2>3, <2>4 DEF IInv, FlightInv
  <2>8. QED
    BY <1>2, <2>6, <2>7 DEF FlightInv
<1>l. LateInv'
  <2>1. \A s \in sent : s.mount # mount
    BY <1>2 DEF IInv, FlightInv, InFlight
  <2>2. \A s \in late : s.mount = mount /\ CanStillBuy(s) => s.key = r.key
    BY <1>6 DEF IInv, LateInv
  <2>3. \A s \in sent \cup late : s.mount = r.mount /\ CanStillBuy(s) => s.key = r.key
    BY <1>6, <2>1, <2>2
  <2>4. ASSUME NEW s \in sent' \cup late', NEW u \in sent' \cup late', s.mount = u.mount,
               CanStillBuy(s), CanStillBuy(u)
        PROVE  s.key = u.key
    <3>1. (s = r \/ s \in sent \cup late) /\ (u = r \/ u \in sent \cup late)
      BY <1>1
    <3>2. QED
      BY <2>3, <2>4, <3>1 DEF IInv, LateInv
  <2>5. QED
    BY <1>1, <2>4 DEF IInv, LateInv, CanStillBuy
<1>12. RoomInv'
  <2>1. \A m : BoughtBy(m)' = BoughtBy(m)
    BY <1>1 DEF BoughtBy
  <2>2. rows[r.key] = Blank => Cardinality(BoughtBy(r.mount)) <= conflicts[r.mount]
    BY <1>6 DEF IInv, RoomInv
  <2>3. QED
    BY <1>1, <2>2 DEF IInv, RoomInv, BoughtBy, SecondPurchaseIsDeliberate
<1>13. PageInv'
  BY <1>1, <1>2 DEF IInv, PageInv
<1>14. TextInv'
  <2>1. ASSUME plain
        PROVE  /\ Resolvable(r.payload)
               /\ Matches(r.payload.prompt, r.payload.version, r.payload.value)
    <3>1. content = page
      BY <1>2, <2>1 DEF IInv, PageInv
    <3>2. Resolvable(r.payload)
      BY <1>2, <1>6, <3>1 DEF Resolvable, Missing
    <3>3. ASSUME EffectivePrompt.of # None
          PROVE  EffectivePrompt.of = page /\ EffectivePrompt.value = value
      <4>1. CASE promptTouched
        <5>1. /\ EffectivePrompt = promptOverride
              /\ promptOverrideValues = Snapshot
          BY <1>2, <4>1 DEF EffectivePrompt, PromptStale
        <5>2. /\ promptOverride.of = content
              /\ IF content \in WithVariable
                   THEN promptOverrideValues = <<promptOverride.value>>
                   ELSE promptOverride.value = ""
          BY <1>2, <2>1, <3>3, <4>1, <5>1 DEF IInv, PageInv
        <5>3. content \notin WithVariable => value = ""
          BY <1>2, <2>1 DEF IInv, PageInv
        <5>4. CASE content \in WithVariable
          BY <3>1, <5>1, <5>2, <5>4 DEF Snapshot
        <5>5. CASE content \notin WithVariable
          BY <3>1, <5>1, <5>2, <5>3, <5>5
        <5>6. QED
          BY <5>4, <5>5
      <4>2. CASE ~promptTouched
        BY <3>1, <3>3, <4>2 DEF EffectivePrompt, Rendered, Render, Blank
      <4>3. QED
        BY <4>1, <4>2
    <3>4. QED
      BY <1>6, <3>2, <3>3 DEF Matches
  <2>2. QED
    BY <1>1, <1>6, <2>1 DEF IInv, TextInv, TextMatchesRecord
<1> QED
  BY <1>7, <1>8, <1>9, <1>10, <1>11, <1>l, <1>12, <1>13, <1>14 DEF IInv, TypeOK

-----------------------------------------------------------------------------
(* The server.                                                             *)

\* What handling a submission leaves of those under way.
Handled ==
  /\ FlightInv' /\ sent' \subseteq sent /\ late' \subseteq late
  /\ replies' \subseteq [req : Requests, outcome : Outcomes]
  /\ \A a \in replies' :
       a \in replies \/ (a.outcome = "conflict" => rows[a.req.key] # Blank)

LEMMA HandledFacts ==
  ASSUME NEW r \in sent \cup late, Handle(r)
  PROVE  /\ UNCHANGED <<page, mount, fetching, loading, content, value,
                        promptTouched, promptOverride, promptOverrideValues,
                        idempotencyKey, lastKey, submitting, plain, conflicts>>
         /\ UNCHANGED <<edits, clicks, moves>>
BY DEF Handle, fieldVars, promptVars, bounds

\* The answer is on its way.
LEMMA RespondStep ==
  ASSUME IInv, NEW r \in sent, Serve(r)
  PROVE  Handled
<1> DEFINE a == [req |-> r, outcome |-> Answer(r)]
<1>0. UNCHANGED <<page, mount, idempotencyKey, submitting>> /\ Answer(r) \in Outcomes
      /\ (Answer(r) = "conflict" => rows[r.key] # Blank)
  BY HandledFacts DEF Serve, Answer, Outcomes
<1>1. /\ sent' = sent \ {r} /\ late' = late
      /\ replies' = replies \cup {a} /\ a.req = r /\ a.outcome = Answer(r)
  BY DEF Serve
<1>2. sent \subseteq Requests /\ replies \subseteq [req : Requests, outcome : Outcomes]
  BY DEF IInv, TypeOK, WireOK
<1>3. a \in [req : Requests, outcome : Outcomes]
  BY <1>0, <1>2
<1> HIDE DEF a
<1>4. InFlight' = InFlight
  BY <1>1 DEF InFlight
<1>5. \A s \in sent' : s \in sent /\ s.mount # r.mount
  BY <1>1 DEF IInv, FlightInv
<1>6. \A b \in replies : b.req.mount # r.mount
  BY DEF IInv, FlightInv
<1>7. /\ \A s \in sent', b \in replies' : s.mount # b.req.mount
      /\ \A s, u \in sent' : s.mount = u.mount => s = u
      /\ \A b, c \in replies' : b.req.mount = c.req.mount => b = c
  BY <1>1, <1>5, <1>6 DEF IInv, FlightInv
<1>8. FlightInv'
  BY <1>0, <1>4, <1>7 DEF IInv, FlightInv
<1> QED
  BY <1>0, <1>1, <1>2, <1>3, <1>8 DEF Handled

\* Nobody waits for this one.
LEMMA LateStep ==
  ASSUME IInv, NEW r \in late, ServeLate(r)
  PROVE  Handled
<1>1. /\ UNCHANGED <<sent, replies, page, mount, idempotencyKey, submitting>>
      /\ late' \subseteq late
  BY HandledFacts DEF ServeLate
<1>2. FlightInv'
  BY <1>1 DEF IInv, FlightInv, InFlight
<1> QED
  BY <1>1, <1>2 DEF Handled, IInv, TypeOK, WireOK

\* What is bought for an instance, and what is bought for the others.
LEMMA BoughtGrows ==
  ASSUME IInv, NEW e \in Purchases, bought' = Append(bought, e)
  PROVE  /\ bought' \in Seq(Purchases)
         /\ DOMAIN bought' = DOMAIN bought \cup {Len(bought) + 1}
         /\ bought'[Len(bought) + 1] = e
         /\ \A i \in DOMAIN bought : bought'[i] = bought[i]
         /\ \A m : m # e.mount => BoughtBy(m)' = BoughtBy(m)
         /\ Cardinality(BoughtBy(e.mount)') = Cardinality(BoughtBy(e.mount)) + 1
         /\ \A m : Cardinality(BoughtBy(m)) \in Nat
<1> DEFINE n == Len(bought)
<1>1. bought \in Seq(Purchases) /\ n \in Nat /\ DOMAIN bought = 1..n
  BY DEF IInv, TypeOK, WireOK
<1>2. /\ bought' \in Seq(Purchases) /\ Len(bought') = n + 1
      /\ \A i \in 1..n : bought'[i] = bought[i]
      /\ bought'[n + 1] = e
  BY <1>1, AppendProperties
<1>3. DOMAIN bought' = 1..(n + 1)
  BY <1>2
<1> HIDE DEF n
<1>4. DOMAIN bought' = DOMAIN bought \cup {n + 1} /\ n + 1 \notin DOMAIN bought
  BY <1>1, <1>3
<1>5. \A m : m # e.mount =>
        {i \in DOMAIN bought' : bought'[i].mount = m} = BoughtBy(m)
  BY <1>1, <1>2, <1>4 DEF BoughtBy
<1>6. {i \in DOMAIN bought' : bought'[i].mount = e.mount}
        = BoughtBy(e.mount) \cup {n + 1}
  BY <1>1, <1>2, <1>4 DEF BoughtBy
<1>7. \A m : BoughtBy(m) \subseteq 1..n
  BY <1>1 DEF BoughtBy
<1>8. \A m : IsFiniteSet(BoughtBy(m))
  <2>1. 1 \in Int /\ n \in Int
    BY <1>1
  <2>2. IsFiniteSet(1..n)
    BY <2>1, FS_Interval
  <2>3. QED
    BY <1>7, <2>2, FS_Subset
<1>9. \A m : Cardinality(BoughtBy(m)) \in Nat
  BY <1>8, FS_CardinalityType
<1>10. n + 1 \notin BoughtBy(e.mount)
  BY <1>4 DEF BoughtBy
<1>11. Cardinality(BoughtBy(e.mount) \cup {n + 1})
         = Cardinality(BoughtBy(e.mount)) + 1
  BY <1>8, <1>10, FS_AddElement
<1> QED
  BY <1>1, <1>2, <1>4, <1>5, <1>6, <1>9, <1>11 DEF BoughtBy, n

\* What a submission that was handled leaves of the invariant, whatever it bought.
LEMMA ServedStep ==
  ASSUME IInv, NEW r \in sent \cup late, Handle(r), Handled,
         rows' \in [Keys -> Payloads \cup {Blank}], bought' \in Seq(Purchases),
         \A k \in Keys : rows'[k] = Blank => rows[k] = Blank, RoomInv', TextInv'
  PROVE  IInv'
<1>1. FieldsOK' /\ FlagsOK' /\ CountsOK'
  BY HandledFacts DEF IInv, TypeOK, FieldsOK, FlagsOK, CountsOK
<1>2. CountInv' /\ PageInv'
  BY HandledFacts DEF IInv, CountInv, PageInv
<1>3. WireOK'
  BY DEF Handled, IInv, TypeOK, WireOK
<1>4. LateInv'
  <2>1. \A s \in sent \cup late : s.key \in Keys
    BY DEF IInv, TypeOK, WireOK, Requests
  <2>2. \A a \in replies' : a.req.key \in Keys
    BY DEF Handled, Requests
  <2>3. \A s \in sent' \cup late' : rows'[s.key] = Blank => CanStillBuy(s)
    BY <2>1 DEF Handled, CanStillBuy
  <2>4. mount' = mount /\ idempotencyKey' = idempotencyKey
    BY HandledFacts
  <2>5. \A s \in late' :
          /\ s.mount <= mount'
          /\ s.mount = mount' /\ rows'[s.key] = Blank => s.key = idempotencyKey'
    BY <2>3, <2>4 DEF Handled, IInv, LateInv
  <2>6. \A s, u \in sent' \cup late' :
          s.mount = u.mount /\ rows'[s.key] = Blank /\ rows'[u.key] = Blank => s.key = u.key
    BY <2>3 DEF Handled, IInv, LateInv
  <2>7. \A a \in replies' : a.outcome = "conflict" => rows'[a.req.key] # Blank
    BY <2>2 DEF Handled, IInv, LateInv
  <2>8. QED
    BY <2>5, <2>6, <2>7 DEF LateInv, CanStillBuy
<1> QED
  BY <1>1, <1>2, <1>3, <1>4 DEF Handled, IInv, TypeOK

LEMMA BuyStep ==
  ASSUME IInv, NEW r \in sent \cup late, Handle(r), Handled, Buy(r)
  PROVE  IInv'
<1> DEFINE e == [mount |-> r.mount, plain |-> r.plain, payload |-> r.payload,
                 text |-> Resolve(r.payload)]
<1>1. /\ rows[r.key] = Blank /\ rows' = [rows EXCEPT ![r.key] = r.payload]
      /\ bought' = Append(bought, e)
      /\ Resolvable(r.payload)
  BY DEF Buy
<1>2. r \in Requests /\ r.mount \in Keys /\ r.key \in Keys
      /\ r.payload \in Payloads /\ r.plain \in BOOLEAN
  BY DEF IInv, TypeOK, WireOK, Requests
<1>3. Resolve(r.payload) \in Texts
  BY <1>2 DEF Resolve, Render, Payloads, Texts
<1>4. e \in Purchases
  BY <1>2, <1>3 DEF Purchases
<1>5. /\ e.mount = r.mount /\ e.plain = r.plain /\ e.payload = r.payload
      /\ e.text = Resolve(r.payload)
  OBVIOUS
<1> HIDE DEF e
<1>7. sent' \cup late' \subseteq sent \cup late
  BY DEF Handled
<1>8. /\ bought' \in Seq(Purchases)
      /\ DOMAIN bought' = DOMAIN bought \cup {Len(bought) + 1}
      /\ bought'[Len(bought) + 1] = e
      /\ \A i \in DOMAIN bought : bought'[i] = bought[i]
      /\ \A m : m # r.mount => BoughtBy(m)' = BoughtBy(m)
      /\ Cardinality(BoughtBy(r.mount)') = Cardinality(BoughtBy(r.mount)) + 1
      /\ \A m : Cardinality(BoughtBy(m)) \in Nat
  BY <1>1, <1>4, <1>5, BoughtGrows
<1>9. /\ \A k \in Keys : k # r.key => rows'[k] = rows[k]
      /\ rows'[r.key] # Blank /\ rows' \in [Keys -> Payloads \cup {Blank}]
  BY <1>1, <1>2, PayloadIsNoBlank DEF IInv, TypeOK, WireOK
<1>11. RoomInv'
  <2>1. /\ mount' = mount /\ conflicts' = conflicts
        /\ idempotencyKey' = idempotencyKey /\ idempotencyKey \in Keys
        /\ conflicts \in [Keys -> Nat]
    BY HandledFacts DEF IInv, TypeOK, CountsOK
  <2>2. Cardinality(BoughtBy(r.mount)) <= conflicts[r.mount]
    BY <1>1 DEF IInv, RoomInv
  <2>m. r.mount <= mount /\ (r.mount = mount => r.key = idempotencyKey)
    BY <1>1 DEF IInv, FlightInv, InFlight, LateInv, CanStillBuy
  <2>3. \A i \in DOMAIN bought' : bought'[i].mount <= mount
    BY <1>5, <1>8, <2>m DEF IInv, RoomInv
  <2>4. \A m \in Keys : Cardinality(BoughtBy(m)') <= 1 + conflicts[m]
    <3>1. \A m \in Keys : Cardinality(BoughtBy(m)) <= 1 + conflicts[m]
      BY DEF IInv, RoomInv, SecondPurchaseIsDeliberate, BoughtBy
    <3>2. Cardinality(BoughtBy(r.mount)') <= 1 + conflicts[r.mount]
      BY <1>2, <1>8, <2>1, <2>2
    <3>3. QED
      BY <1>8, <3>1, <3>2
  <2>5. SecondPurchaseIsDeliberate'
    BY <2>1, <2>4 DEF SecondPurchaseIsDeliberate, BoughtBy
  <2>6. ASSUME NEW s \in sent' \cup late', rows'[s.key] = Blank
        PROVE  Cardinality(BoughtBy(s.mount)') <= conflicts[s.mount]
    <3>1. s \in sent \cup late /\ s.key \in Keys
      BY <1>7 DEF IInv, TypeOK, WireOK, Requests
    <3>2. rows[s.key] = Blank /\ s.key # r.key
      BY <1>9, <2>6, <3>1
    <3>3. s.mount # r.mount
      BY <1>1, <3>1, <3>2 DEF IInv, LateInv, CanStillBuy
    <3>4. QED
      BY <1>8, <3>1, <3>2, <3>3 DEF IInv, RoomInv
  <2>7. ASSUME rows'[idempotencyKey] = Blank
        PROVE  Cardinality({i \in DOMAIN bought' : bought'[i].mount = mount})
                 <= conflicts[mount]
    <3>1. rows[idempotencyKey] = Blank /\ idempotencyKey # r.key
      BY <1>9, <2>1, <2>7
    <3>2. r.mount # mount
      BY <2>m, <3>1
    <3>3. {i \in DOMAIN bought' : bought'[i].mount = mount} = BoughtBy(mount)
      BY <1>8, <3>2 DEF BoughtBy
    <3>4. Cardinality(BoughtBy(mount)) <= conflicts[mount]
      BY <3>1 DEF IInv, RoomInv
    <3>5. QED
      BY <3>3, <3>4
  <2>8. QED
    BY <2>1, <2>3, <2>5, <2>6, <2>7 DEF RoomInv, BoughtBy
<1>12. TextInv'
  <2>1. r.plain => Matches(e.text, r.payload.version, r.payload.value)
    BY <1>5 DEF IInv, TextInv, Matches, Resolve, Render
  <2>2. TextMatchesRecord'
    BY <1>5, <1>8, <2>1 DEF IInv, TextInv, TextMatchesRecord, Matches
  <2>3. QED
    BY <1>7, <2>2 DEF IInv, TextInv
<1> QED
  BY <1>8, <1>9, <1>11, <1>12, ServedStep

LEMMA HandleStep ==
  ASSUME IInv, NEW r \in sent \cup late, Handle(r), Handled
  PROVE  IInv'
<1>1. CASE Buy(r)
  BY <1>1, BuyStep
<1>2. CASE ~Buy(r)
  <2>1. rows' = rows /\ bought' = bought
    BY <1>2 DEF Handle, Ignore
  <2>2. sent' \cup late' \subseteq sent \cup late
    BY DEF Handled
  <2>3. RoomInv'
    BY <2>1, <2>2, HandledFacts
       DEF IInv, RoomInv, BoughtBy, SecondPurchaseIsDeliberate
  <2>4. TextInv'
    BY <2>1, <2>2 DEF IInv, TextInv, TextMatchesRecord
  <2>5. QED
    BY <2>1, <2>3, <2>4, ServedStep DEF IInv, TypeOK, WireOK
<1> QED
  BY <1>1, <1>2

-----------------------------------------------------------------------------
(* The handler goes on.                                                    *)

\* r was the only submission its instance had under way.
LEMMA EndsStep ==
  ASSUME IInv, NEW r \in InFlight, NEW outcome, Ends(r, outcome),
         sent' \subseteq sent, replies' \subseteq replies, late' \subseteq late \cup {r},
         outcome = "conflict" => rows[r.key] # Blank /\ late' = late,
         r \in late' => r \in sent \cup late,
         \A s \in InFlight' : s.mount # r.mount
  PROVE  IInv'
<1> DEFINE alive == page # None /\ r.mount = mount
           rotated == alive /\ outcome = "conflict"
<1>1. /\ rows' = rows /\ bought' = bought /\ mount' = mount /\ loading' = loading
      /\ content' = content /\ value' = value /\ plain' = plain
      /\ promptTouched' = promptTouched /\ promptOverride' = promptOverride
      /\ promptOverrideValues' = promptOverrideValues
      /\ edits' = edits /\ clicks' = clicks /\ moves' = moves
  BY DEF Ends, fieldVars, promptVars, bounds
<1>2. \/ page' = None /\ fetching' = FALSE
      \/ page' = page /\ fetching' = fetching
  BY DEF Ends
<1>3. submitting' \in BOOLEAN /\ (submitting' <=> submitting /\ ~alive)
  BY DEF Ends, IInv, TypeOK, FlagsOK
<1>4. /\ rotated => lastKey' = lastKey + 1 /\ idempotencyKey' = lastKey + 1
      /\ ~rotated => lastKey' = lastKey /\ idempotencyKey' = idempotencyKey
  BY DEF Ends, RotatesKey
<1>5. conflicts' = IF outcome = "conflict"
                     THEN [conflicts EXCEPT ![r.mount] = @ + 1] ELSE conflicts
  BY DEF Ends
<1>6. /\ r.mount \in Keys /\ mount \in Keys /\ conflicts \in [Keys -> Nat]
      /\ lastKey \in Nat \ {0} /\ idempotencyKey \in Nat /\ moves \in 0..MaxMoves
      /\ clicks \in 0..MaxClicks
  BY KeyFacts DEF IInv, TypeOK, WireOK, CountsOK, InFlight, Requests
<1>7. alive => submitting
  BY DEF IInv, FlightInv
<1>8. /\ conflicts' \in [Keys -> Nat]
      /\ \A m \in Keys : conflicts[m] <= conflicts'[m]
      /\ rotated => conflicts'[mount] = conflicts[mount] + 1
  BY <1>5, <1>6
<1>9. InFlight' \subseteq InFlight
  BY DEF InFlight
<1>10. /\ lastKey <= 1 + moves + clicks /\ mount <= 1 + moves
       /\ idempotencyKey <= lastKey
       /\ submitting => lastKey <= moves + clicks
  BY DEF IInv, CountInv
<1> HIDE DEF alive
<1>11. rotated => lastKey + 1 <= 1 + moves + clicks
  BY <1>6, <1>7, <1>10
<1>12. CountInv'
  <2>1. lastKey' <= 1 + moves + clicks /\ idempotencyKey' <= lastKey'
    BY <1>4, <1>6, <1>10, <1>11
  <2>2. submitting' => lastKey' <= moves + clicks
    BY <1>3, <1>4, <1>10
  <2>3. QED
    BY <1>1, <1>10, <2>1, <2>2 DEF CountInv
<1>13. CountsOK'
  <2>1. lastKey' \in Keys /\ idempotencyKey' \in Keys
    <3>1. CASE rotated
      <4>1. /\ 1 <= lastKey + 1 /\ lastKey + 1 \in Nat
            /\ lastKey + 1 <= 1 + MaxMoves + MaxClicks
        BY <1>6, <1>11, <3>1
      <4>2. QED
        BY <1>4, <3>1, <4>1, KeyFacts
    <3>2. CASE ~rotated
      BY <1>4, <3>2 DEF IInv, TypeOK, CountsOK
    <3>3. QED
      BY <3>1, <3>2
  <2>2. QED
    BY <1>1, <1>8, <2>1 DEF IInv, TypeOK, CountsOK
<1>14. WireOK'
  BY <1>1 DEF IInv, TypeOK, WireOK
<1>s. sent' \cup late' \subseteq sent \cup late
  OBVIOUS
<1>15. FieldsOK'
  BY <1>1, <1>2 DEF IInv, TypeOK, FieldsOK
<1>16. FlagsOK'
  BY <1>1, <1>2, <1>3 DEF IInv, TypeOK, FlagsOK
<1>17. FlightInv'
  <2>1. /\ \A s \in sent', a \in replies' : s.mount # a.req.mount
        /\ \A s, u \in sent' : s.mount = u.mount => s = u
        /\ \A a, b \in replies' : a.req.mount = b.req.mount => a = b
    BY DEF IInv, FlightInv
  <2>2. ASSUME NEW s \in InFlight', s.mount = mount
        PROVE  /\ s.key = idempotencyKey'
               /\ page' # None => submitting'
    <3>1. ~alive
      BY <2>2 DEF alive
    <3>2. s \in InFlight
      BY <1>9
    <3>3. /\ s.key = idempotencyKey
          /\ page # None => submitting
      BY <2>2, <3>2 DEF IInv, FlightInv
    <3>4. s.key = idempotencyKey'
      BY <1>4, <3>1, <3>3
    <3>5. page' # None => submitting'
      BY <1>2, <1>3, <3>1, <3>3
    <3>6. QED
      BY <3>4, <3>5
  <2>3. \A s \in InFlight' : s.mount <= mount
    BY <1>9 DEF IInv, FlightInv
  <2>4. QED
    BY <1>1, <2>1, <2>2, <2>3 DEF FlightInv
<1>l. LateInv'
  <2>1. r.mount = mount => r.key = idempotencyKey
    BY DEF IInv, FlightInv
  <2>2. ASSUME NEW s \in late', s.mount = mount, CanStillBuy(s)
        PROVE  s.key = idempotencyKey'
    <3>1. s.key = idempotencyKey
      BY <2>1, <2>2 DEF IInv, LateInv
    <3>2. ~rotated
      BY <2>1, <2>2, <3>1 DEF CanStillBuy, alive
    <3>3. QED
      BY <1>4, <3>1, <3>2
  <2>3. \A s \in late' : s.mount <= mount
    BY DEF IInv, LateInv, FlightInv
  <2>4. \A s, u \in sent' \cup late' :
          s.mount = u.mount /\ CanStillBuy(s) /\ CanStillBuy(u) => s.key = u.key
    BY <1>s DEF IInv, LateInv
  <2>5. QED
    BY <1>1, <2>2, <2>3, <2>4 DEF IInv, LateInv, CanStillBuy
<1>18. RoomInv'
  <2>1. \A m \in Keys : Cardinality(BoughtBy(m)) <= 1 + conflicts[m]
    BY DEF IInv, RoomInv, SecondPurchaseIsDeliberate, BoughtBy
  <2>2. \A m \in Keys : BoughtBy(m) \subseteq DOMAIN bought /\ IsFiniteSet(BoughtBy(m))
    <3>1. bought \in Seq(Purchases) /\ Len(bought) \in Int /\ 1 \in Int
      BY DEF IInv, TypeOK, WireOK
    <3>2. IsFiniteSet(1..Len(bought)) /\ DOMAIN bought = 1..Len(bought)
      BY <3>1, FS_Interval
    <3>3. \A m \in Keys : BoughtBy(m) \subseteq DOMAIN bought
      BY DEF BoughtBy
    <3>4. QED
      BY <3>2, <3>3, FS_Subset
  <2>3. \A m \in Keys : Cardinality(BoughtBy(m)) \in Nat
    BY <2>2, FS_CardinalityType
  <2>4. \A m \in Keys : Cardinality(BoughtBy(m)) <= 1 + conflicts'[m]
    BY <1>6, <1>8, <2>1, <2>3
  <2>5. ASSUME NEW s \in sent' \cup late', rows[s.key] = Blank
        PROVE  Cardinality(BoughtBy(s.mount)) <= conflicts'[s.mount]
    <3>1. s \in sent \cup late /\ s.mount \in Keys
      BY <1>s DEF IInv, TypeOK, WireOK, Requests
    <3>2. Cardinality(BoughtBy(s.mount)) <= conflicts[s.mount]
      BY <2>5, <3>1 DEF IInv, RoomInv
    <3>3. QED
      BY <1>6, <1>8, <2>3, <3>1, <3>2
  <2>6. ASSUME rows[idempotencyKey'] = Blank
        PROVE  Cardinality(BoughtBy(mount)) <= conflicts'[mount]
    <3>1. CASE rotated
      BY <1>6, <1>8, <2>1, <2>3, <3>1
    <3>2. CASE ~rotated
      <4>1. Cardinality(BoughtBy(mount)) <= conflicts[mount]
        BY <1>4, <2>6, <3>2 DEF IInv, RoomInv
      <4>2. QED
        BY <1>6, <1>8, <2>3, <4>1
    <3>3. QED
      BY <3>1, <3>2
  <2>7. SecondPurchaseIsDeliberate'
    BY <1>1, <2>4 DEF SecondPurchaseIsDeliberate, BoughtBy
  <2>8. \A i \in DOMAIN bought : bought[i].mount <= mount
    BY DEF IInv, RoomInv
  <2>9. QED
    BY <1>1, <2>5, <2>6, <2>7, <2>8 DEF RoomInv, BoughtBy
<1>19. PageInv'
  <2>1. CASE page' = None /\ fetching' = FALSE
    <3>1. loading => ~promptTouched /\ value = ""
      BY DEF IInv, PageInv
    <3>2. loading' => ~promptTouched' /\ value' = ""
      BY <1>1, <3>1
    <3>3. QED
      BY <2>1, <3>2 DEF PageInv
  <2>2. CASE page' = page /\ fetching' = fetching
    BY <1>1, <2>2 DEF IInv, PageInv
  <2>3. QED
    BY <1>2, <2>1, <2>2
<1>20. TextInv'
  BY <1>1, <1>s DEF IInv, TextInv, TextMatchesRecord
<1> QED
  BY <1>12, <1>13, <1>14, <1>15, <1>16, <1>17, <1>l, <1>18, <1>19,
     <1>20 DEF IInv, TypeOK

LEMMA ReturnsStep ==
  ASSUME IInv, NEW a \in replies, SubmitReturns(a)
  PROVE  IInv'
<1>1. PICK outcome \in {a.outcome, "lost"} : Ends(a.req, outcome)
  BY DEF SubmitReturns
<1>2. sent' = sent /\ replies' = replies \ {a} /\ late' = late /\ a.req \in InFlight
  BY DEF SubmitReturns, InFlight
<1>c. outcome = "conflict" => rows[a.req.key] # Blank
  BY DEF IInv, LateInv
<1>r. a.req \in late' => a.req \in sent \cup late
  BY <1>2
<1>3. \A s \in InFlight' : s.mount # a.req.mount
  BY <1>2 DEF IInv, FlightInv, InFlight
<1>4. sent' \subseteq sent /\ replies' \subseteq replies /\ late' \subseteq late \cup {a.req}
  BY <1>2
<1> QED
  BY <1>1, <1>2, <1>c, <1>r, <1>3, <1>4, EndsStep

LEMMA LostStep ==
  ASSUME IInv, NEW r \in sent, SubmitIsLost(r)
  PROVE  IInv'
<1>1. /\ Ends(r, "lost") /\ sent' = sent \ {r} /\ late' = late \cup {r}
      /\ replies' = replies
  BY DEF SubmitIsLost
<1>2. /\ r \in InFlight /\ sent' \subseteq sent /\ replies' \subseteq replies
      /\ late' \subseteq late \cup {r}
  BY <1>1 DEF InFlight
<1>3. \A s \in InFlight' : s.mount # r.mount
  BY <1>1 DEF IInv, FlightInv, InFlight
<1> QED
  BY <1>1, <1>2, <1>3, EndsStep

-----------------------------------------------------------------------------

LEMMA StutterStep == ASSUME IInv, UNCHANGED vars PROVE IInv'
<1>1. /\ UNCHANGED <<rows, bought, sent, replies, late, page, mount, fetching, loading,
                     content, value, promptTouched, promptOverride,
                     promptOverrideValues, idempotencyKey, lastKey>>
      /\ UNCHANGED <<submitting, edits, clicks, moves, plain, conflicts>>
  BY DEF vars, wireVars, fieldVars, promptVars, bounds
<1>2. TypeOK'
  BY <1>1 DEF IInv, TypeOK, WireOK, FieldsOK, FlagsOK, CountsOK
<1>3. FlightInv' /\ LateInv' /\ CountInv'
  BY <1>1 DEF IInv, FlightInv, InFlight, LateInv, CanStillBuy, CountInv
<1>4. RoomInv' /\ TextInv'
  BY <1>1 DEF IInv, RoomInv, BoughtBy, SecondPurchaseIsDeliberate, TextInv,
              TextMatchesRecord
<1>5. PageInv'
  BY <1>1 DEF IInv, PageInv
<1> QED
  BY <1>2, <1>3, <1>4, <1>5 DEF IInv

LEMMA StepInvariant == ASSUME IInv, [Next]_vars PROVE IInv'
<1>1. ASSUME NEW v \in Versions, Open(v) PROVE IInv'
  BY <1>1, OpenStep
<1>2. ASSUME NEW v \in Versions, Jump(v) PROVE IInv'
  <2>1. v # None
    OBVIOUS
  <2>2. /\ page' = v /\ v # page /\ page # None /\ Move
        /\ fetching' \in BOOLEAN /\ (fetching' <=> v # None)
        /\ plain' \in BOOLEAN /\ (plain' => plain /\ v = None)
    BY <1>2, <2>1 DEF Jump
  <2>3. UNCHANGED <<wireVars, mount, loading, fieldVars, idempotencyKey,
                    lastKey, submitting, conflicts>>
    BY <1>2 DEF Jump
  <2>4. QED
    BY <2>2, <2>3, StayStep
<1>3. CASE Leave
  <2>1. /\ page' = None /\ None # page /\ Move
        /\ fetching' \in BOOLEAN /\ (fetching' <=> None # None)
        /\ plain' \in BOOLEAN /\ (plain' => plain /\ None = None)
    BY <1>3 DEF Leave, IInv, TypeOK, FlagsOK
  <2>2. UNCHANGED <<wireVars, mount, loading, fieldVars, idempotencyKey,
                    lastKey, submitting, conflicts>>
    BY <1>3 DEF Leave
  <2>3. QED
    BY <2>1, <2>2, StayStep
<1>4. ASSUME NEW ok \in BOOLEAN, LoadReturns(ok) PROVE IInv'
  BY <1>4, LoadStep
<1>5. ASSUME NEW v \in Values \cup {""}, FillIn(v) PROVE IInv'
  BY <1>5, FillInStep
<1>6. CASE TypePrompt \/ InsertCameraPreset
  BY <1>6, FreezeStep DEF TypePrompt, InsertCameraPreset
<1>7. CASE ResetPrompt
  BY <1>7, ResetStep
<1>8. CASE Submit
  BY <1>8, SubmitStep
<1>9. ASSUME NEW r \in sent, Serve(r) \/ SubmitIsLost(r) PROVE IInv'
  BY <1>9, HandleStep, RespondStep, LostStep DEF Serve
<1>l. ASSUME NEW r \in late, ServeLate(r) PROVE IInv'
  BY <1>l, HandleStep, LateStep DEF ServeLate
<1>10. ASSUME NEW a \in replies, SubmitReturns(a) PROVE IInv'
  BY <1>10, ReturnsStep
<1>11. CASE UNCHANGED vars
  BY <1>11, StutterStep
<1> QED
  BY <1>1, <1>2, <1>3, <1>4, <1>5, <1>6, <1>7, <1>8, <1>9, <1>l, <1>10, <1>11
     DEF Next

(* What the composer's state and its submissions on the wire have in       *)
(* common holds in every state (Composer.tsx).                             *)
THEOREM Inductive == Spec => []IInv
<1>1. Init => IInv
  BY InitInvariant
<1>2. IInv /\ [Next]_vars => IInv'
  BY StepInvariant
<1> QED
  BY <1>1, <1>2, PTL DEF Spec

(* Every variable keeps its type, and no more keys are made than there     *)
(* are moves and clicks.                                                   *)
THEOREM TypeCorrect == Spec => []TypeOK
<1>1. IInv => TypeOK
  BY DEF IInv
<1> QED
  BY <1>1, Inductive, PTL

(* Whatever is lost, one instance of the composer buys a second generation *)
(* only after its user was told of a conflict (Composer.tsx submit).       *)
THEOREM PurchasesAreDeliberate == Spec => []SecondPurchaseIsDeliberate
<1>1. IInv => SecondPurchaseIsDeliberate
  BY DEF IInv, RoomInv
<1> QED
  BY <1>1, Inductive, PTL

(* A text that was bought was rendered from the version and the values its *)
(* job records, in whatever order they were edited (Composer.tsx           *)
(* promptStale).                                                           *)
THEOREM TextsMatch == Spec => []TextMatchesRecord
<1>1. IInv => TextMatchesRecord
  BY DEF IInv, TextInv
<1> QED
  BY <1>1, Inductive, PTL

(* What a composer with one version submits, the server can render         *)
(* (Composer.tsx canSubmit, generationService.ts resolveRenderedPrompt).   *)
THEOREM SubmissionsAreComplete == Spec => []SubmissionsResolve
<1>1. IInv => SubmissionsResolve
  BY DEF IInv, TextInv, SubmissionsResolve
<1> QED
  BY <1>1, Inductive, PTL
=============================================================================
