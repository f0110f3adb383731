---------------------------- MODULE ComposerView ----------------------------
(***************************************************************************)
(* The generation composer (Composer.tsx) and what the server makes of its *)
(* submissions: one paid generation per idempotency key.  A prompt text is *)
(* known by what it was rendered from, the version and the value of its    *)
(* variable, and by whether it was edited since.                           *)
(***************************************************************************)
EXTENDS Naturals, Sequences, FiniteSets

CONSTANTS
  Versions, WithVariable,   \* prompt versions; those with a variable in them
  Values,                   \* what the user may fill in
  None,                     \* no version: any page but the composer
  MaxEdits,                 \* bound: edits of the variable or the prompt
  MaxClicks,                \* bound: clicks on Generate
  MaxMoves                  \* bound: navigations by the user

ASSUME VersionsAssumption == WithVariable \subseteq Versions /\ None \notin Versions
ASSUME BoundsAssumption ==
  MaxEdits \in Nat /\ MaxClicks \in Nat /\ MaxMoves \in Nat

Blank == [of |-> None, value |-> "", edited |-> FALSE]
Texts == [of : Versions \cup {None}, value : Values \cup {""}, edited : BOOLEAN]
Render(version, value) == [of |-> version, value |-> value, edited |-> FALSE]

Keys == 1..(1 + MaxMoves + MaxClicks)
Snapshots == {<<v>> : v \in Values \cup {"", "none"}}

VARIABLES
  (* the server *)
  rows,          \* idempotency_key to the payload of its job
  bought,        \* what was bought, in order
  (* the browser *)
  page,          \* the version the page is about
  mount,         \* the number of the living instance, or of the last one
  fetching,      \* its load for the page is under way
  loading, content, value,
  promptTouched, promptOverride, promptOverrideValues,
  idempotencyKey,
  lastKey,       \* the last key made, by any instance
  submitting,
  sent,          \* submissions the server has not answered
  replies,       \* its answers on their way
  late,          \* those the page has given up, which may still arrive
  edits, clicks, moves,
  (* history *)
  plain,         \* the instance has had one version, and could load it
  conflicts      \* idempotency conflicts each instance was told of

promptVars == <<promptTouched, promptOverride, promptOverrideValues>>
fieldVars == <<content, value, promptVars>>
wireVars == <<rows, bought, sent, replies, late>>
bounds == <<edits, clicks, moves>>
vars == <<wireVars, page, mount, fetching, loading, fieldVars, idempotencyKey,
          lastKey, submitting, bounds, plain, conflicts>>

Payloads == [version : Versions, value : Values \cup {""}, prompt : Texts]
Requests == [mount : Keys, click : 1..MaxClicks, key : Keys, plain : BOOLEAN,
             payload : Payloads]
Outcomes == {"job", "conflict", "refused"}
Purchases ==
  [mount : Keys, plain : BOOLEAN, payload : Payloads, text : Texts]

WireOK ==
  /\ rows \in [Keys -> Payloads \cup {Blank}] /\ bought \in Seq(Purchases)
  /\ sent \subseteq Requests /\ replies \subseteq [req : Requests, outcome : Outcomes]
  /\ late \subseteq Requests

FieldsOK ==
  /\ page \in Versions \cup {None} /\ content \in Versions \cup {None}
  /\ value \in Values \cup {""}
  /\ promptOverride \in Texts /\ promptOverrideValues \in Snapshots

FlagsOK ==
  /\ fetching \in BOOLEAN /\ loading \in BOOLEAN /\ submitting \in BOOLEAN
  /\ promptTouched \in BOOLEAN /\ plain \in BOOLEAN

CountsOK ==
  /\ mount \in Keys /\ idempotencyKey \in Keys /\ lastKey \in Keys
  /\ edits \in 0..MaxEdits /\ clicks \in 0..MaxClicks /\ moves \in 0..MaxMoves
  /\ conflicts \in [Keys -> Nat]

TypeOK == WireOK /\ FieldsOK /\ FlagsOK /\ CountsOK

-----------------------------------------------------------------------------
(* What the page derives from its state.                                   *)

Missing == content \in WithVariable /\ value = ""

Rendered ==
  IF content = None \/ Missing THEN Blank ELSE Render(content, value)

\* snapshotValues: the values, under the variables there are.
Snapshot == IF content \in WithVariable THEN <<value>> ELSE <<"none">>

EffectivePrompt == IF promptTouched THEN promptOverride ELSE Rendered

\* Mutant: the values are not compared with the snapshot.
NeverStale == FALSE

PromptStale == promptTouched /\ promptOverrideValues # Snapshot

\* Mutant: variables may be left blank.
CanSubmitBlank == ~PromptStale /\ ~submitting

CanSubmit == ~Missing /\ ~PromptStale /\ ~submitting

chipsDisabled == Missing \/ PromptStale

-----------------------------------------------------------------------------
(* Coming and going.                                                       *)

Fresh(m) ==
  /\ loading' = TRUE /\ content' = None /\ value' = ""
  /\ promptTouched' = FALSE /\ promptOverride' = Blank
  /\ promptOverrideValues' = <<"none">>
  /\ submitting' = FALSE /\ plain' = TRUE
  /\ mount' = m /\ lastKey' = lastKey + 1 /\ idempotencyKey' = lastKey + 1

Init ==
  /\ rows = [k \in Keys |-> Blank] /\ bought = <<>>
  /\ page \in Versions /\ mount = 1 /\ fetching = TRUE /\ loading = TRUE
  /\ content = None /\ value = "" /\ promptTouched = FALSE
  /\ promptOverride = Blank /\ promptOverrideValues = <<"none">>
  /\ idempotencyKey = 1 /\ lastKey = 1 /\ submitting = FALSE
  /\ sent = {} /\ replies = {} /\ late = {} /\ edits = 0 /\ clicks = 0 /\ moves = 0
  /\ plain = TRUE /\ conflicts = [m \in Keys |-> 0]

Move == moves < MaxMoves /\ moves' = moves + 1 /\ UNCHANGED <<edits, clicks>>

\* From any other page.
Open(v) ==
  /\ Move /\ page = None /\ page' = v /\ fetching' = TRUE
  /\ Fresh(mount + 1)
  /\ UNCHANGED <<wireVars, conflicts>>

\* Through the browser's history or address bar, from composer to composer:
\* the instance stays and only its load starts over.
Jump(v) ==
  /\ Move /\ page \notin {None, v} /\ page' = v /\ fetching' = TRUE
  /\ plain' = FALSE
  /\ UNCHANGED <<wireVars, mount, loading, fieldVars, idempotencyKey, lastKey,
                 submitting, conflicts>>

Leave ==
  /\ Move /\ page # None /\ page' = None /\ fetching' = FALSE
  /\ UNCHANGED <<wireVars, mount, loading, fieldVars, idempotencyKey, lastKey,
                 submitting, plain, conflicts>>

\* A load that was superseded is cancelled; this is the one for the page.
LoadReturns(ok) ==
  /\ fetching /\ fetching' = FALSE /\ loading' = FALSE
  /\ IF ok THEN content' = page /\ value' = "" ELSE UNCHANGED <<content, value>>
  /\ plain' = (plain /\ ok)
  /\ UNCHANGED <<wireVars, page, mount, promptVars, idempotencyKey, lastKey,
                 submitting, bounds, conflicts>>

-----------------------------------------------------------------------------
(* The form.                                                               *)

FormEdit ==
  /\ page # None /\ ~loading /\ edits < MaxEdits /\ edits' = edits + 1
  /\ UNCHANGED <<wireVars, page, mount, fetching, loading, content,
                 idempotencyKey, lastKey, submitting, clicks, moves, plain,
                 conflicts>>

FillIn(v) ==
  /\ FormEdit /\ content \in WithVariable /\ value' = v /\ v # value
  /\ UNCHANGED promptVars

\* The text and, when it was untouched, the values it was rendered from.
Freeze(text) ==
  /\ promptOverride' = text /\ promptTouched' = TRUE
  /\ promptOverrideValues' =
       IF promptTouched THEN promptOverrideValues ELSE Snapshot
  /\ UNCHANGED value

Edited == [EffectivePrompt EXCEPT !.edited = TRUE]

\* By hand: the text is changed, or cleared.
TypePrompt == FormEdit /\ (Freeze(Edited) \/ Freeze(Blank))

InsertCameraPreset ==
  FormEdit /\ ~chipsDisabled /\ Freeze(Edited)

ResetPrompt ==
  /\ FormEdit /\ promptTouched /\ promptTouched' = FALSE
  /\ promptOverride' = Blank /\ promptOverrideValues' = <<"none">>
  /\ UNCHANGED value

-----------------------------------------------------------------------------
(* Submission.                                                             *)

Submit ==
  /\ page # None /\ ~loading /\ CanSubmit
  /\ clicks < MaxClicks /\ clicks' = clicks + 1
  /\ submitting' = TRUE
  /\ sent' = sent \cup
       {[mount |-> mount, click |-> clicks', key |-> idempotencyKey, plain |-> plain,
         payload |-> [version |-> page, value |-> value,
                      prompt |-> EffectivePrompt]]}
  /\ UNCHANGED <<rows, bought, replies, late, page, mount, fetching, loading,
                 fieldVars, idempotencyKey, lastKey, edits, moves, plain,
                 conflicts>>

\* resolveRenderedPrompt: the text, or when it is blank the rendered version.
Resolvable(p) == p.prompt # Blank \/ p.version \notin WithVariable \/ p.value # ""
Resolve(p) == IF p.prompt # Blank THEN p.prompt ELSE Render(p.version, p.value)

Buy(r) ==
  /\ Resolvable(r.payload) /\ rows[r.key] = Blank
  /\ rows' = [rows EXCEPT ![r.key] = r.payload]
  /\ bought' = Append(bought, [mount |-> r.mount, plain |-> r.plain,
                               payload |-> r.payload,
                               text |-> Resolve(r.payload)])

\* Refused, bought already or in conflict with what was.
Ignore(r) ==
  /\ ~Resolvable(r.payload) \/ rows[r.key] # Blank
  /\ UNCHANGED <<rows, bought>>

Handle(r) ==
  /\ Buy(r) \/ Ignore(r)
  /\ UNCHANGED <<page, mount, fetching, loading, fieldVars, idempotencyKey,
                 lastKey, submitting, bounds, plain, conflicts>>

Answer(r) ==
  CASE ~Resolvable(r.payload)                 -> "refused"
    [] rows[r.key] \notin {Blank, r.payload}  -> "conflict"
    [] OTHER                                  -> "job"

Serve(r) ==
  /\ Handle(r)
  /\ sent' = sent \ {r}
  /\ replies' = replies \cup {[req |-> r, outcome |-> Answer(r)]}
  /\ UNCHANGED late

\* After the page was told that the connection was lost.
ServeLate(r) == Handle(r) /\ late' = late \ {r} /\ UNCHANGED <<sent, replies>>

\* Mutant: any failure gets a new key.
RotatesOnFailure(outcome) == outcome # "job"

RotatesKey(outcome) == outcome = "conflict"

\* The handler goes on, with the reply or, when the request or the reply was
\* lost, with an error.  go() leaves whatever page the user is on by now.
Ends(r, outcome) ==
  LET alive == page # None /\ r.mount = mount IN
  /\ IF outcome = "job" THEN page' = None /\ fetching' = FALSE
                        ELSE UNCHANGED <<page, fetching>>
  /\ submitting' = (submitting /\ ~alive)
  /\ IF alive /\ RotatesKey(outcome)
       THEN lastKey' = lastKey + 1 /\ idempotencyKey' = lastKey + 1
       ELSE UNCHANGED <<lastKey, idempotencyKey>>
  /\ conflicts' = IF outcome = "conflict"
                    THEN [conflicts EXCEPT ![r.mount] = @ + 1] ELSE conflicts
  /\ UNCHANGED <<rows, bought, mount, loading, fieldVars, bounds, plain>>

SubmitReturns(a) ==
  /\ replies' = replies \ {a} /\ UNCHANGED <<sent, late>>
  /\ \E outcome \in {a.outcome, "lost"} : Ends(a.req, outcome)

SubmitIsLost(r) ==
  /\ sent' = sent \ {r} /\ late' = late \cup {r} /\ UNCHANGED replies
  /\ Ends(r, "lost")

Next ==
  \/ \E v \in Versions : Open(v) \/ Jump(v)
  \/ Leave
  \/ \E ok \in BOOLEAN : LoadReturns(ok)
  \/ \E v \in Values \cup {""} : FillIn(v)
  \/ TypePrompt \/ InsertCameraPreset \/ ResetPrompt
  \/ Submit
  \/ \E r \in sent : Serve(r) \/ SubmitIsLost(r)
  \/ \E r \in late : ServeLate(r)
  \/ \E a \in replies : SubmitReturns(a)

Spec == Init /\ [][Next]_vars

-----------------------------------------------------------------------------
(* However submissions and their replies are lost and repeated, and        *)
(* whatever is edited in between, one instance of the composer buys a      *)
(* second generation only after its user was told of a conflict            *)
(* (Composer.tsx submit: the key is kept after any other failure).         *)
SecondPurchaseIsDeliberate ==
  \A m \in Keys :
    Cardinality({i \in DOMAIN bought : bought[i].mount = m}) <= 1 + conflicts[m]

(* A text that was bought was rendered, before any edit of it, from the    *)
(* version and the values its job records, though variables and text were  *)
(* edited in any order (Composer.tsx promptStale).  It holds while an      *)
(* instance has one version.                                               *)
TextMatchesRecord ==
  \A i \in DOMAIN bought :
    LET b == bought[i] IN
    b.plain /\ b.text.of # None =>
      b.text.of = b.payload.version /\ b.text.value = b.payload.value

(* Whatever an instance with one version lets through, the server can      *)
(* render: the page and the server agree on what is missing.               *)
SubmissionsResolve == \A r \in sent : r.plain => Resolvable(r.payload)
=============================================================================
