--------------------------- MODULE MCConsensusRound ---------------------------
(* Rounds over one and two documents.  A leader may follow the code, or    *)
(* state other facts or markers than its documents hold, or change any one *)
(* field of an honest payload, or fail with any error; what is changed has *)
(* no notes, what an honest leader returns has any.                        *)
EXTENDS ConsensusRound

Clean(kind) ==
    [kind |-> kind, trusted |-> TRUE, bytes |-> "readable",
     in_currency |-> TRUE, total |-> 4, line_sum |-> 4, issued |-> 5,
     marker |-> FALSE, known_bytes |-> FALSE, known_number |-> FALSE]

Invoice == Clean("INVOICE")
Statement == [Clean("WITNESS_STATEMENT") EXCEPT !.total = 0, !.line_sum = 0]

Crit(kind) == [kind |-> kind, evidence_kind |-> "", trusted_only |-> FALSE, critical |-> TRUE]

Subject(documents, criteria, exclusions) ==
    [documents |-> documents, criteria |-> criteria, exclusions |-> exclusions,
     claimed |-> 4, incident |-> 4, submitted_on |-> 6, tolerance_bps |-> 1000]

Asking == <<Crit("SEMANTIC")>>
Looking == <<Crit("EVIDENCE_EXAMINED")>>
Excluding == <<[evidence_kind |-> "INVOICE"]>>

MCSubjects ==
    {Subject(<<Invoice>>, Asking, <<>>),
     Subject(<<Invoice>>, Looking, Excluding),
     Subject(<<[Invoice EXCEPT !.line_sum = 3]>>, Asking, Excluding),
     Subject(<<[Statement EXCEPT !.bytes = "malformed"]>>, Asking, <<>>),
     Subject(<<[Statement EXCEPT !.bytes = "oversized"], Invoice>>, Asking, Excluding),
     Subject(<<Invoice, Clean("REPAIR_ESTIMATE")>>, Looking, <<>>)}

\* What the record would be, had document i other contents.
Altered(record, i) ==
    {[record EXCEPT !.documents[i].marker = TRUE],
     [record EXCEPT !.documents[i].line_sum = 3],
     [record EXCEPT !.documents[i].known_number = ~@]}

Misread(p) ==
    {[p EXCEPT !.rows[i] = Row(status, bytes)] :
        i \in DOMAIN p.rows,
        status \in {"EXAMINED", "UNAVAILABLE", "HASH_MISMATCH", "TOO_LARGE", "UNPARSEABLE"},
        bytes \in 0..2}

\* Of the two questions each round asks here, one is answered with notes.
MCNotes(id) == IF id = <<"indicator", "INSTRUCTION_INJECTION">> THEN {NoNote}
                                                               ELSE {NoNote, "cut"}

Misjudged(p) ==
    UNION {{[p EXCEPT !.findings[id].state = state] :
               state \in Vocabulary(id) \union {"NOT_APPLICABLE"}}
           \union {[p EXCEPT !.findings[id].by = by] : by \in {"CODE", "PANEL"}}
           \union {[p EXCEPT !.findings[id].note = note] : note \in {"short", "cut"}}
           \union {[p EXCEPT !.findings[id].quotes = @ \union {Quote(i, FALSE)}] :
                      i \in DOMAIN p.rows}
           : id \in DOMAIN p.findings}

Misheaded(p) ==
    {[p EXCEPT !.header = "another round"], [p EXCEPT !.markers = {1} \ @]}
        \union {[p EXCEPT !.panel_state = s] :
                   s \in {"ASSESSED", "SKIPPED", "MODEL_OUTPUT_INVALID"}}

Terse(payloads) ==
    {p \in payloads : \A id \in DOMAIN p.findings : p.findings[id].note = NoNote}

Quoting(p) == {id \in DOMAIN p.findings : p.findings[id].quotes # {}}

MCDeviations(record, results) ==
    LET honest == {r.payload : r \in {q \in results : q.kind = "return"}}
        bare == {p \in Terse(honest) : Quoting(p) = {}}
        single == {p \in Terse(honest) : Cardinality(Quoting(p)) = 1}
        altered == UNION {Altered(record, i) : i \in DOMAIN record.documents}
        payloads == UNION {Terse(NodePayloads(r)) : r \in altered}
                       \union UNION {Misread(p) \union Misheaded(p) : p \in bare}
                       \union UNION {Misjudged(p) : p \in bare \union single}
    IN {Failed(e) : e \in {"LLM_ERROR", "EXPECTED", "VM"}}
       \union {Returned(p) : p \in payloads}

CONSTANTS v1, v2, v3
MCValidators == {v1, v2, v3}
Alike == Permutations(MCValidators)
===============================================================================
