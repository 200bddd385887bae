---------------------------- MODULE PanelGrounding ----------------------------
(***************************************************************************)
(* How one subject's answer by the panel model becomes a finding           *)
(* (_normalize_answer and the downgrades of _panel_findings): each quote   *)
(* the model offers is cut to length, searched for in the documents, kept  *)
(* or dropped; the cited ids are completed; an answer its quotes do not    *)
(* carry becomes undecided.  Beside it the gate such a finding meets at    *)
(* every validator and at the contract's boundary (_check_panel_finding).  *)
(*                                                                         *)
(* Texts are sequences of words as _word_tokens leaves them.  A quote is a *)
(* sequence of words and ellipses written with single spaces; a note is a  *)
(* sequence of characters, blank or not.                                   *)
(***************************************************************************)
EXTENDS Integers, Sequences, FiniteSets, FiniteSetsExt, Functions

CONSTANTS
    Tasks,          \* bound: the answers explored, each with its documents
    Width,          \* characters of every word and of the ellipsis
    QUOTE_MIN,      \* 8 in the code
    QUOTE_CAP,      \* 240 in the code
    MAX_QUOTES,     \* 3 in the code
    NOTE_CAP        \* 200 in the code

Ellipsis == "..."
Blank == " "

ASSUME WidthsArePositive ==
    /\ Ellipsis \in DOMAIN Width
    /\ \A w \in DOMAIN Width : Width[w] \in Nat \ {0}

ASSUME GroundingLimits ==
    {QUOTE_MIN, QUOTE_CAP, MAX_QUOTES, NOTE_CAP} \subseteq Nat

NoReference == 0
NoState == "none"
Undecided == "UNDECIDED"    \* UNVERIFIABLE or UNDETERMINED

(* A task: the verified texts by document id, the ids eligible for the     *)
(* subject in record order, the documents' kinds, the state that must be   *)
(* quoted with its rule, and the model's answer.  A quote that is no text  *)
(* at all is empty; a reference may be to any document or to none.         *)
ASSUME TasksAreAnswers ==
    \A t \in Tasks :
        /\ t.texts \in [DOMAIN t.texts -> Seq(DOMAIN Width)]
        /\ t.eligible \in Seq(DOMAIN t.texts) /\ IsInjective(t.eligible)
        /\ DOMAIN t.kinds = DOMAIN t.texts
        /\ Undecided \in t.vocab \ {t.rule.state}
        /\ t.quotes \in Seq([text: Seq(DOMAIN Width),
                             cited: DOMAIN t.texts \union {NoReference}])

VARIABLES
    task,           \* constant during a behaviour
    position,       \* quotes of the answer read so far
    quotes,         \* the quotes kept
    finding         \* the finding, once concluded

groundingVars == <<task, position, quotes, finding>>

\* The elements of s at the positions `at`, in the order of s.
Picked(s, at) ==
    LET upto[n \in 0..Len(s)] ==
            IF n = 0 THEN <<>>
            ELSE IF n \in at THEN Append(upto[n - 1], s[n]) ELSE upto[n - 1]
    IN upto[Len(s)]

NoFinding == [state |-> NoState, evidence_ids |-> <<>>, quotes |-> <<>>, note |-> <<>>]

-------------------------------------------------------------------------------
(* Searching a document for a quote.                                       *)

NotFound == -1

OccursAt(haystack, needle, i) ==
    /\ i + Len(needle) <= Len(haystack)
    /\ SubSeq(haystack, i + 1, i + Len(needle)) = needle

\* Mutant: the search resumes just after the start of a match.
FindRun_Overlapping(haystack, needle, start) ==
    LET starts == {i \in start..Len(haystack) : OccursAt(haystack, needle, i)}
    IN IF starts = {} THEN NotFound ELSE Min(starts) + 1

\* How many words lie before the end of the first occurrence from `start`.
FindRun(haystack, needle, start) ==
    LET starts == {i \in start..Len(haystack) : OccursAt(haystack, needle, i)}
    IN IF starts = {} THEN NotFound ELSE Min(starts) + Len(needle)

(* The runs of words between ellipses, empty ones dropped: a fragment is   *)
(* known by its first position in the text.                                *)
Starts(text) ==
    {i \in DOMAIN text : text[i] # Ellipsis /\ (i = 1 \/ text[i - 1] = Ellipsis)}

Fragment(text, i) ==
    SubSeq(text, i, Min({j \in i..Len(text) : j = Len(text) \/ text[j + 1] = Ellipsis}))

WordCount(text) == Cardinality({i \in DOMAIN text : text[i] # Ellipsis})

\* Each fragment is searched for from the end of the one before.
Search(text, source) ==
    LET reached[i \in 0..Len(text)] ==
            IF i = 0 THEN 0
            ELSE IF i \in Starts(text) /\ reached[i - 1] # NotFound
                 THEN FindRun(source, Fragment(text, i), reached[i - 1])
                 ELSE reached[i - 1]
    IN reached[Len(text)]

NoTexts == <<>>

\* `texts` is NoTexts where no bytes are at hand, as at the boundary.
QuoteGrounded(quote, eligible, texts) ==
    /\ quote.evidence_id \in Range(eligible)
    /\ \/ texts = NoTexts
       \/ /\ quote.evidence_id \in DOMAIN texts
          /\ WordCount(quote.text) >= 2
          /\ Search(quote.text, texts[quote.evidence_id]) # NotFound

-------------------------------------------------------------------------------
(* Cutting and keeping a quote.                                            *)

\* The characters of the tokens and of the blanks between them.
Characters(text) ==
    LET upto[n \in 0..Len(text)] ==
            IF n = 0 THEN 0
            ELSE upto[n - 1] + Width[text[n]] + (IF n = 1 THEN 0 ELSE 1)
    IN upto[Len(text)]

\* An over-long text ends at the last blank among its first QUOTE_CAP characters.
Cut(text) ==
    IF Characters(text) <= QUOTE_CAP THEN text
    ELSE LET kept == {n \in 0..Len(text) :
                        n = 0 \/ Characters(SubSeq(text, 1, n)) < QUOTE_CAP}
         IN SubSeq(text, 1, Max(kept))

\* Mutant: documents are searched in record order whatever is cited.
FirstHolding_Record(holding, cited, eligible) ==
    eligible[Min({k \in DOMAIN eligible : eligible[k] \in holding})]

\* The cited document before the others, these in record order.
FirstHolding(holding, cited, eligible) ==
    IF cited \in holding THEN cited
    ELSE eligible[Min({k \in DOMAIN eligible : eligible[k] \in holding})]

Holding(text, eligible, texts) ==
    {e \in Range(eligible) :
        QuoteGrounded([evidence_id |-> e, text |-> text], eligible, texts)}

Nowhere == [evidence_id |-> NoReference, text |-> <<>>]

\* Mutant: the quote is searched for as offered and cut when it is stored.
GroundQuote_CutLater(raw, eligible, texts) ==
    LET holding == Holding(raw.text, eligible, texts)
    IN IF Characters(raw.text) < QUOTE_MIN \/ holding = {} THEN Nowhere
       ELSE [evidence_id |-> FirstHolding(holding, raw.cited, eligible),
             text |-> Cut(raw.text)]

GroundQuote(raw, eligible, texts) ==
    LET text == Cut(raw.text)
        holding == Holding(text, eligible, texts)
    IN IF Characters(text) < QUOTE_MIN \/ holding = {} THEN Nowhere
       ELSE [evidence_id |-> FirstHolding(holding, raw.cited, eligible), text |-> text]

\* The distinct documents quoted satisfy the rule of the quoted state.
QuotesSatisfy(rule, kept, kinds) ==
    LET documents == {kept[i].evidence_id : i \in DOMAIN kept}
    IN /\ Cardinality(documents) >= rule.min_docs
       /\ rule.quote_kinds # {} => \E d \in documents : kinds[d] \in rule.quote_kinds

\* Runs of blanks become one, none at either end; then the cap.
CleanNote(note) ==
    LET inner(i) == /\ i < Len(note) /\ note[i + 1] # Blank
                    /\ \E j \in 1..i : note[j] # Blank
        stripped == Picked(note, {i \in DOMAIN note : note[i] # Blank \/ inner(i)})
    IN SubSeq(stripped, 1, IF Len(stripped) < NOTE_CAP THEN Len(stripped) ELSE NOTE_CAP)

-------------------------------------------------------------------------------
(* The answer, quote by quote.                                             *)

Init ==
    /\ task \in Tasks
    /\ position = 0 /\ quotes = <<>> /\ finding = NoFinding

More == finding = NoFinding /\ position < Len(task.quotes)

Raw == task.quotes[position + 1]

Candidate == GroundQuote(Raw, task.eligible, task.texts)

\* Mutant: the bound counts the quotes offered.
Full_Offered == position >= MAX_QUOTES

Full == Len(quotes) >= MAX_QUOTES

Keep ==
    /\ More /\ ~Full
    /\ Candidate # Nowhere /\ Candidate \notin Range(quotes)
    /\ quotes' = Append(quotes, Candidate)
    /\ position' = position + 1
    /\ UNCHANGED <<task, finding>>

Drop ==
    /\ More
    /\ Full \/ Candidate = Nowhere \/ Candidate \in Range(quotes)
    /\ position' = position + 1
    /\ UNCHANGED <<task, quotes, finding>>

\* The eligible documents among ids, in record order.
InOrder(eligible, ids) == Picked(eligible, {k \in DOMAIN eligible : eligible[k] \in ids})

\* What the answer names or quotes.
EvidenceIds ==
    InOrder(task.eligible,
            task.evidence_ids \union {quotes[i].evidence_id : i \in DOMAIN quotes})

\* Off-vocabulary states, and quoted states their quotes do not carry.
StateKept ==
    /\ task.state \in task.vocab
    /\ task.state = task.rule.state => QuotesSatisfy(task.rule, quotes, task.kinds)

Conclude ==
    /\ finding = NoFinding /\ position = Len(task.quotes)
    /\ finding' = [state |-> IF StateKept THEN task.state ELSE Undecided,
                   evidence_ids |-> EvidenceIds,
                   quotes |-> quotes,
                   note |-> CleanNote(task.note)]
    /\ UNCHANGED <<task, position, quotes>>

Next == Keep \/ Drop \/ Conclude

Spec == Init /\ [][Next]_groundingVars

-------------------------------------------------------------------------------
(* The gate on a panel finding.                                            *)

ValidFindingShape(f) ==
    /\ CleanNote(f.note) = f.note
    /\ Len(f.quotes) <= MAX_QUOTES
    /\ IsInjective(f.evidence_ids)
    /\ \A i \in DOMAIN f.quotes :
          /\ Characters(f.quotes[i].text) \in QUOTE_MIN..QUOTE_CAP
          /\ f.quotes[i].evidence_id \in Range(f.evidence_ids)

CheckPanelFinding(f, t, texts) ==
    /\ ValidFindingShape(f)
    /\ f.state \in t.vocab
    /\ InOrder(t.eligible, Range(f.evidence_ids)) = f.evidence_ids
    /\ \A i \in DOMAIN f.quotes : QuoteGrounded(f.quotes[i], t.eligible, texts)
    /\ f.state = t.rule.state => QuotesSatisfy(t.rule, f.quotes, t.kinds)

-------------------------------------------------------------------------------
(* Properties.                                                             *)

\* Reference: the fragments lie in the source in order, apart from each other.
Placed(text, source) ==
    \E at \in [Starts(text) -> 0..Len(source)] :
        \A i \in Starts(text) :
            /\ OccursAt(source, Fragment(text, i), at[i])
            /\ \A j \in Starts(text) :
                  j < i => at[j] + Len(Fragment(text, j)) <= at[i]

(* Searching each fragment from the end of the previous match, always at   *)
(* its first occurrence, neither misses a quote the document supports nor  *)
(* accepts one it does not, whatever repeats in quote or document.         *)
SearchIsExact ==
    More => \A e \in Range(task.eligible) :
        QuoteGrounded([evidence_id |-> e, text |-> Raw.text], task.eligible, task.texts)
           <=> WordCount(Raw.text) >= 2 /\ Placed(Raw.text, task.texts[e])

(* What an honest node keeps, any node that holds the same bytes accepts,  *)
(* and so does the boundary, which holds none: cutting, search order,      *)
(* deduplication and the bounds never leave a finding the gate refuses     *)
(* (its note aside, see NotesNeverDecide).                                 *)
KeptFindingsPassTheGate ==
    finding # NoFinding /\ CleanNote(finding.note) = finding.note =>
        \A texts \in {task.texts, NoTexts} : CheckPanelFinding(finding, task, texts)

(* A finding whose quotes are all cited to documents that hold them is not *)
(* downgraded for want of documents: a quote that other documents hold too *)
(* counts for the one the model named.                                     *)
CorrectCitationsStand ==
    LET cited(i) == [evidence_id |-> task.quotes[i].cited,
                     text |-> Cut(task.quotes[i].text)]
        offered == [i \in DOMAIN task.quotes |-> cited(i)]
    IN /\ finding # NoFinding
       /\ Len(offered) <= MAX_QUOTES
       /\ \A i \in DOMAIN offered :
             /\ QuoteGrounded(offered[i], task.eligible, task.texts)
             /\ Characters(offered[i].text) >= QUOTE_MIN
       /\ task.state = task.rule.state /\ task.state \in task.vocab
       /\ QuotesSatisfy(task.rule, offered, task.kinds)
       => finding.state = task.state

(* No supported quote is lost behind unsupported or repeated ones: among   *)
(* the quotes read, one that some eligible document holds is kept, unless  *)
(* MAX_QUOTES others are.                                                  *)
SupportedQuotesAreKept ==
    \A i \in 1..position :
        LET text == Cut(task.quotes[i].text)
        IN \/ Len(quotes) = MAX_QUOTES
           \/ \E k \in DOMAIN quotes : quotes[k].text = text
           \/ Characters(text) < QUOTE_MIN
           \/ WordCount(text) < 2
           \/ \A e \in Range(task.eligible) : ~Placed(text, task.texts[e])

(* docs/CONSENSUS.md, "Allowed differences": notes are never compared, two *)
(* honest panels word things differently.  So what a node's own gate says  *)
(* of its own finding does not depend on the words of the note.            *)
NotesNeverDecide ==
    finding # NoFinding =>
        CheckPanelFinding(finding, task, task.texts)
            = CheckPanelFinding([finding EXCEPT !.note = <<>>], task, task.texts)
===============================================================================
