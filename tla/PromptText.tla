----------------------------- MODULE PromptText -----------------------------
(***************************************************************************)
(* What the code does with texts: templates are parsed and rendered,       *)
(* camera cues inserted, prompts searched for by words and tags.  A text   *)
(* is a sequence of characters; the user types one of three: a template,   *)
(* a prompt, or the text that searches, and what is searched, are cut      *)
(* from.                                                                   *)
(***************************************************************************)
EXTENDS Integers, Sequences, FiniteSets, SequencesExt

CONSTANTS
  Chunks,       \* the texts a template is typed from
  Letters,      \* what searches, names and tags are typed from
  Inherited,    \* names every JavaScript object has, such as "constructor"
  NotFinite,    \* what is not a number, or not a finite one
  MaxChunks, MaxScratch, MaxPrompt   \* bounds: lengths of what is typed

ASSUME BoundsAssumption ==
  MaxChunks \in Nat /\ MaxScratch \in Nat /\ MaxPrompt \in Nat
ASSUME NumbersAssumption == NotFinite \notin Int
ASSUME TextsAssumption == Chunks \subseteq Seq(STRING) /\ Letters \subseteq STRING

VARIABLES
  template,      \* the chunks typed
  scratch, prompt,
  selectionStart, selectionEnd   \* in the prompt

selection == <<selectionStart, selectionEnd>>
typingVars == <<template, scratch, prompt, selection>>

TypingInit ==
  /\ template = <<>> /\ scratch = <<>> /\ prompt = <<>>
  /\ selectionStart = 0 /\ selectionEnd = 0

-----------------------------------------------------------------------------
(* The template engine (template.ts).                                      *)

Space == " "

trim(t) ==
  LET ink == {i \in DOMAIN t : t[i] \notin {Space, "\n"}} IN
  IF ink = {} THEN <<>>
  ELSE SubSeq(t, CHOOSE i \in ink : \A k \in ink : i <= k,
                 CHOOSE i \in ink : \A k \in ink : i >= k)

Pair(t, i, c) == i \in 1..(Len(t) - 1) /\ t[i] = c /\ t[i + 1] = c

\* VARIABLE_PATTERN matches at i and ends with the braces at j: between them
\* there is no closing brace.
MatchesAt(t, i, j) ==
  /\ Pair(t, i, "{") /\ Pair(t, j, "}") /\ i + 2 <= j
  /\ \A k \in (i + 2)..(j - 1) : t[k] # "}"

\* Mutant: one of the closing braces stays.
WalkLeavingABrace(t) ==
  LET walk[i \in 1..(Len(t) + 1)] ==
    IF i > Len(t) THEN <<>>
    ELSE IF \E j \in DOMAIN t : MatchesAt(t, i, j)
      THEN LET j == CHOOSE j \in DOMAIN t : MatchesAt(t, i, j)
           IN <<[name |-> trim(SubSeq(t, i + 2, j - 1))]>> \o walk[j + 1]
      ELSE <<[text |-> t[i]]>> \o walk[i + 1]
  IN walk

\* matchAll and replace walk through a template from left to right and go on
\* behind each match: the pieces they have before them at each position.
Walk(t) ==
  LET walk[i \in 1..(Len(t) + 1)] ==
    IF i > Len(t) THEN <<>>
    ELSE IF \E j \in DOMAIN t : MatchesAt(t, i, j)
      THEN LET j == CHOOSE j \in DOMAIN t : MatchesAt(t, i, j)
           IN <<[name |-> trim(SubSeq(t, i + 2, j - 1))]>> \o walk[j + 2]
      ELSE <<[text |-> t[i]]>> \o walk[i + 1]
  IN walk

Scan(t) == Walk(t)[1]

IsName(piece) == "name" \in DOMAIN piece

\* VARIABLE_NAME_PATTERN, and not empty
ValidName(n) == n # <<>> /\ \A i \in DOMAIN n : n[i] \notin {"{", "}", "!", Space}

NamesIn(t) == {piece.name : piece \in {q \in ToSet(Scan(t)) : IsName(q)}}

\* The names, each once, or an error.
parseTemplate(t) ==
  IF \A n \in NamesIn(t) : ValidName(n) THEN [ok |-> TRUE, variables |-> NamesIn(t)]
                                        ELSE [ok |-> FALSE, variables |-> {}]

Unset == [set |-> FALSE]
Given(value) == [set |-> TRUE, value |-> value]

\* Mutant: a value of white space counts.
HasValueOrSpace(v, n) == v[n].set /\ v[n].value # <<>>

HasValue(v, n) == v[n].set /\ trim(v[n].value) # <<>>

\* values[name].trim() where nothing was given but the prototype has the name
Crashes(v, n) == ~v[n].set /\ n \in Inherited

findMissingVariables(t, v) == {n \in parseTemplate(t).variables : ~HasValue(v, n)}

\* The check of the composer; where a name crashes there is no list to see.
Complete(t, v) ==
  /\ parseTemplate(t).ok /\ findMissingVariables(t, v) = {}
  /\ \A n \in parseTemplate(t).variables : ~Crashes(v, n)

\* What rendering one placeholder makes of it: its own checks, in its order.
RenderName(n, v) ==
  CASE ~ValidName(n) -> [error |-> "TemplateSyntaxError"]
    [] ValidName(n) /\ Crashes(v, n) -> [error |-> "TypeError"]
    [] ValidName(n) /\ v[n].set /\ trim(v[n].value) # <<>> -> [text |-> v[n].value]
    [] OTHER -> [error |-> "UnresolvedVariableError"]

RenderPiece(piece, v) ==
  IF IsName(piece) THEN RenderName(piece.name, v) ELSE [text |-> <<piece.text>>]

renderTemplate(t, v) ==
  LET made == [k \in DOMAIN Scan(t) |-> RenderPiece(Scan(t)[k], v)]
      bad == {k \in DOMAIN made : "error" \in DOMAIN made[k]}
  IN IF bad = {}
       THEN [text |-> FlattenSeq([k \in DOMAIN made |-> made[k].text])]
       ELSE made[CHOOSE k \in bad : \A i \in bad : k <= i]

-----------------------------------------------------------------------------
(* Camera cues (cameraPresets.ts).                                         *)

clampIndex(value, max) ==
  IF value = NotFinite THEN max
  ELSE IF value < 0 THEN 0 ELSE IF value > max THEN max ELSE value

\* Mutant: no space after the cue.
needsTrailingSpaceNever(after) == FALSE

needsLeadingSpace(before) == before # <<>> /\ Last(before) # Space
needsTrailingSpace(after) == after # <<>> /\ Head(after) # Space

Ends == LET a == clampIndex(selectionStart, Len(prompt))
            b == clampIndex(selectionEnd, Len(prompt))
        IN IF a <= b THEN <<a, b>> ELSE <<b, a>>

Before == SubSeq(prompt, 1, Ends[1])
After == SubSeq(prompt, Ends[2] + 1, Len(prompt))

insertTokenAtSelection(token) ==
  LET lead == IF needsLeadingSpace(Before) THEN <<Space>> ELSE <<>>
      trail == IF needsTrailingSpace(After) THEN <<Space>> ELSE <<>>
      caret == Len(Before) + Len(lead) + Len(token)
  IN [text |-> Before \o lead \o token \o trail \o After, caret |-> caret]

-----------------------------------------------------------------------------
(* Searching (promptRepo.list).                                            *)

\* Mutant: the wild card for one character is forgotten.
escapePercentOnly(t) ==
  FlattenSeq([i \in DOMAIN t |->
    IF t[i] \in {"\\", "%"} THEN <<"\\", t[i]>> ELSE <<t[i]>>])

escapeLikeLiteral(t) ==
  FlattenSeq([i \in DOMAIN t |->
    IF t[i] \in {"\\", "%", "_"} THEN <<"\\", t[i]>> ELSE <<t[i]>>])

\* SQLite takes the letters of ASCII for the same in both cases.
lower == [A |-> "a", B |-> "b", C |-> "c", D |-> "d", E |-> "e", F |-> "f", G |-> "g",
          H |-> "h", I |-> "i", J |-> "j", K |-> "k", L |-> "l", M |-> "m", N |-> "n",
          O |-> "o", P |-> "p", Q |-> "q", R |-> "r", S |-> "s", T |-> "t", U |-> "u",
          V |-> "v", W |-> "w", X |-> "x", Y |-> "y", Z |-> "z"]
Fold(c) == IF c \in DOMAIN lower THEN lower[c] ELSE c

\* SQLite: for each rest of the pattern p, the positions from which the rest of
\* t matches it.
Matched(t, p) ==
  LET matched[i \in 1..(Len(p) + 1)] ==
    IF i > Len(p) THEN {Len(t) + 1}
    ELSE CASE p[i] = "%" -> {j \in 1..(Len(t) + 1) : \E k \in matched[i + 1] : j <= k}
           [] p[i] = "_" -> {j \in DOMAIN t : j + 1 \in matched[i + 1]}
           [] p[i] = "\\" -> {j \in DOMAIN t : /\ i < Len(p) /\ Fold(p[i + 1]) = Fold(t[j])
                                             /\ j + 1 \in matched[i + 2]}
           [] OTHER -> {j \in DOMAIN t : Fold(p[i]) = Fold(t[j]) /\ j + 1 \in matched[i + 1]}
  IN matched

\* SQLite: t LIKE p ESCAPE '\'.
Like(t, p) == 1 \in Matched(t, p)[1]

Join(ts, separator) ==
  FlattenSeq([i \in DOMAIN ts |-> IF i = 1 THEN ts[i] ELSE separator \o ts[i]])

\* JSON.stringify of a string, and of an array of them.
JsonString(t) ==
  <<"\"">> \o FlattenSeq([i \in DOMAIN t |->
                CASE t[i] \in {"\\", "\""} -> <<"\\", t[i]>>
                  [] t[i] = "\n" -> <<"\\", "n">>
                  [] OTHER -> <<t[i]>>]) \o <<"\"">>
JsonTags(tags) ==
  <<"[">> \o Join([i \in DOMAIN tags |-> JsonString(tags[i])], <<",">>) \o <<"]">>

Finds(q, text) == Like(text, <<"%">> \o escapeLikeLiteral(q) \o <<"%">>)

HasTag(tag, tags) ==
  Like(JsonTags(tags), <<"%", "\"">> \o escapeLikeLiteral(tag) \o <<"\"", "%">>)

-----------------------------------------------------------------------------
(* The user types in one of the three fields.                              *)

TypeTemplate(c) ==
  /\ scratch = <<>> /\ prompt = <<>> /\ Len(template) < MaxChunks
  /\ template' = Append(template, c)
  /\ UNCHANGED <<scratch, prompt, selection>>

TypeScratch(c) ==
  /\ template = <<>> /\ prompt = <<>> /\ Len(scratch) < MaxScratch
  /\ scratch' = Append(scratch, c)
  /\ UNCHANGED <<template, prompt, selection>>

\* Into the prompt field, at its end.
TypePrompt(c) ==
  /\ template = <<>> /\ scratch = <<>> /\ Len(prompt) < MaxPrompt
  /\ prompt' = Append(prompt, c)
  /\ selectionStart' = Len(prompt) + 1 /\ selectionEnd' = Len(prompt) + 1
  /\ UNCHANGED <<template, scratch>>

\* A selection; callers may pass one from outside the text, backwards or none.
Select(i, j) ==
  /\ prompt # <<>>
  /\ selectionStart' = i /\ selectionEnd' = j
  /\ UNCHANGED <<template, scratch, prompt>>

\* insertCameraPreset
Chip ==
  /\ template = <<>> /\ scratch = <<>> /\ Len(prompt) < MaxPrompt
  /\ LET result == insertTokenAtSelection(<<"cue">>)
     IN /\ prompt' = result.text
        /\ selectionStart' = result.caret /\ selectionEnd' = result.caret
  /\ UNCHANGED <<template, scratch>>

TypingNext ==
  \/ \E c \in Chunks : TypeTemplate(c)
  \/ \E c \in Letters : TypeScratch(c)
  \/ \E c \in {"w", Space} : TypePrompt(c)
  \/ \E i, j \in {NotFinite} \cup -1..(Len(prompt) + 1) : Select(i, j)
  \/ Chip

TypingSpec == TypingInit /\ [][TypingNext]_typingVars

-----------------------------------------------------------------------------
Text == FlattenSeq(template)

VariablesOf(t) == {n \in NamesIn(t) : ValidName(n)}

\* What may be given for a variable; one value looks like a placeholder.
Assignments ==
  [VariablesOf(Text) ->
     {Unset} \cup {Given(x) : x \in {<<>>, <<Space>>, <<"x">>,
                                    <<"{", "{", "a", "}", "}">>}}]

\* The check the client makes before it lets the user submit and the rendering
\* the server does afterwards, each with its own loop, agree on every template
\* and all values (findMissingVariables, renderTemplate).
RenderAgreesWithCheck ==
  \A v \in Assignments :
    "text" \in DOMAIN renderTemplate(Text, v) <=> Complete(Text, v)

\* A placeholder, seen at once and not by scanning: of the braces that one
\* pair of closing braces may end, the leftmost.
IsPlaceholder(t, i, j) ==
  MatchesAt(t, i, j) /\ \A k \in 1..(i - 1) : ~MatchesAt(t, k, j)

\* What the text has in the place of position k once it is filled in.
Cell(t, v, k) ==
  IF \E j \in DOMAIN t : IsPlaceholder(t, k, j)
    THEN LET j == CHOOSE j \in DOMAIN t : IsPlaceholder(t, k, j)
         IN v[trim(SubSeq(t, k + 2, j - 1))].value
    ELSE IF \E i, j \in DOMAIN t : IsPlaceholder(t, i, j) /\ i < k /\ k <= j + 1
      THEN <<>> ELSE <<t[k]>>

FilledIn(t, v) == FlattenSeq([k \in DOMAIN t |-> Cell(t, v, k)])

\* Rendering replaces each placeholder by its value and nothing else: values
\* that look like placeholders stay as they are, stray braces survive.
RenderFillsPlaceholders ==
  \A v \in Assignments :
    LET r == renderTemplate(Text, v) IN
    "text" \in DOMAIN r => r.text = FilledIn(Text, v)

\* The words of a text, as the positions of their first and last characters.
WordsOf(t) ==
  {w \in (1..Len(t)) \X (1..Len(t)) :
     /\ w[1] <= w[2] /\ \A k \in w[1]..w[2] : t[k] # Space
     /\ w[1] = 1 \/ t[w[1] - 1] = Space
     /\ w[2] = Len(t) \/ t[w[2] + 1] = Space}

MovedBy(d, words) == {<<w[1] + d, w[2] + d>> : w \in words}

\* Wherever the selection is, what is before and behind it stays and the cue
\* becomes a word of its own: no word of either side joins it, the next cue goes
\* behind it (insertTokenAtSelection).
ChipInsertsAWord ==
  [][Chip =>
       LET d == Len(prompt') - Len(After)
           cue == selectionStart'
       IN /\ SubSeq(prompt', 1, Len(Before)) = Before
          /\ SubSeq(prompt', d + 1, Len(prompt')) = After
          /\ prompt'[cue] = "cue" /\ selectionEnd' = cue
          /\ WordsOf(prompt') =
               WordsOf(Before) \cup {<<cue, cue>>} \cup MovedBy(d, WordsOf(After))]_typingVars

Cuts == {SubSeq(scratch, i, j) : i \in 1..(Len(scratch) + 1), j \in 0..Len(scratch)}

Has(t, c) == \E i \in DOMAIN t : t[i] = c

SameText(s, t) == Len(s) = Len(t) /\ \A i \in DOMAIN s : Fold(s[i]) = Fold(t[i])

FoundIffContained(q, t) ==
  Finds(q, t) <=> \E i \in 0..(Len(t) - Len(q)) : SameText(SubSeq(t, i + 1, i + Len(q)), q)

SearchIsLiteral == \A q, t \in Cuts : FoundIffContained(q, t)

Plain(t) == t # <<>> /\ ~Has(t, "\"") /\ ~Has(t, "\\") /\ ~Has(t, "\n")

\* The query that the comma between two tags answers is the one exception.
FoundIffListed(q, tags) ==
  q # <<",">> => (HasTag(q, tags) <=> \E tag \in ToSet(tags) : SameText(tag, q))

TagFilterIsExact ==
  \A q, a, b \in {t \in Cuts : Plain(t)} : FoundIffListed(q, <<a, b>>)

\* The list of the library finds what it is asked for and nothing else, the case
\* of the letters of ASCII aside: a search the texts that contain it, wild cards
\* taken literally, and the filter by tag the prompts with that tag, though it
\* matches inside the JSON text of all of them - as long as neither tag nor query
\* needs escaping in JSON, and the query is not the comma between two tags
\* (promptRepo.list, escapeLikeLiteral).
FiltersAreExact == SearchIsLiteral /\ TagFilterIsExact
=============================================================================
