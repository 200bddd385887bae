-------------------------- MODULE MCResolutionRound --------------------------
(* Claims over one policy with a critical semantic criterion, a documented *)
(* amount and an exclusion: every pair of the documents below, and a few   *)
(* triples.  Each document departs from a clean record in one respect, so  *)
(* that pairs reach every branch of the indicators and of the derivation.  *)
EXTENDS ResolutionRound

Clean(kind) ==
    [kind |-> kind, trusted |-> TRUE, bytes |-> "readable",
     in_currency |-> TRUE, total |-> 0, line_sum |-> 0, issued |-> 5,
     marker |-> FALSE, known_bytes |-> FALSE, known_number |-> FALSE]

Bill(kind, amount) == [Clean(kind) EXCEPT !.total = amount, !.line_sum = amount]

Invoice == Bill("INVOICE", 4)
Photo == Clean("PHOTO_LOG")

Documents ==
    {Invoice, Bill("INVOICE", 2), Bill("REPAIR_ESTIMATE", 3),
     [Invoice EXCEPT !.line_sum = 3],
     [Invoice EXCEPT !.issued = 9],
     [Invoice EXCEPT !.in_currency = FALSE],
     [Invoice EXCEPT !.known_number = TRUE],
     [Invoice EXCEPT !.trusted = FALSE],
     [Invoice EXCEPT !.bytes = "malformed"],
     Photo,
     [Photo EXCEPT !.marker = TRUE],
     [Photo EXCEPT !.known_bytes = TRUE],
     [Photo EXCEPT !.bytes = "oversized"],
     Clean("WITNESS_STATEMENT"), Clean("OWNERSHIP_RECORD")}

Crit(kind, evidence, trusted, critical) ==
    [kind |-> kind, evidence_kind |-> evidence,
     trusted_only |-> trusted, critical |-> critical]

Subject(documents, criteria) ==
    [documents |-> documents, criteria |-> criteria,
     exclusions |-> <<[evidence_kind |-> "PHOTO_LOG"]>>,
     claimed |-> 4, incident |-> 4, submitted_on |-> 6, tolerance_bps |-> 1000]

Strict == <<Crit("SEMANTIC", "", FALSE, TRUE),
            Crit("AMOUNT_DOCUMENTED", "INVOICE", TRUE, FALSE)>>
Lenient == <<Crit("SEMANTIC", "PHOTO_LOG", FALSE, FALSE),
             Crit("EVIDENCE_EXAMINED", "INVOICE", FALSE, TRUE)>>

Triples ==
    {<<Bill("INVOICE", 2), Bill("INVOICE", 2), Bill("REPAIR_ESTIMATE", 4)>>,
     <<Bill("INVOICE", 2), Bill("REPAIR_ESTIMATE", 4), Photo>>}

MCSubjects ==
    {Subject(<<d, e>>, Strict) : d, e \in Documents}
        \union {Subject(<<Invoice, e>>, Lenient) : e \in Documents}
        \union {Subject(t, Strict) : t \in Triples}
===============================================================================
