--------------------------- MODULE MCPanelGrounding ---------------------------
(* Answers over two documents of two words.  Single quotes: every sequence *)
(* of up to four words and ellipses, against every text of up to four      *)
(* words, so that words repeat and fragments overlap.  Answers of three    *)
(* quotes: from a handful that are supported by one document, by both, by  *)
(* none, too short, or too long, under a criterion's rule and under one    *)
(* that asks for two documents.                                            *)
EXTENDS PanelGrounding, TLC

Words == {"a", "b"}
MCWidth == [a |-> 1, b |-> 2] @@ (Ellipsis :> 1)

Sequences(S, least, most) == UNION {[1..n -> S] : n \in least..most}

QuoteOf(text, cited) == [text |-> text, cited |-> cited]

CriterionRule == [state |-> "SATISFIED", min_docs |-> 1, quote_kinds |-> {}]
DamageRule == [state |-> "PRESENT", min_docs |-> 2, quote_kinds |-> {"PHOTO_LOG"}]

Task(first, second, eligible, rule, state, offered, ids, note) ==
    [texts |-> <<first, second>>, eligible |-> eligible,
     kinds |-> <<"PHOTO_LOG", "INVOICE">>, rule |-> rule,
     vocab |-> {rule.state, "OTHER", Undecided}, state |-> state,
     quotes |-> offered, evidence_ids |-> ids, note |-> note]

Blanks == <<"x", "x", Blank, Blank, "x">>
Wide == <<Blank, "x", Blank, Blank, "x", "x">>

SingleQuotes ==
    {Task(first, <<"b", "a">>, <<1, 2>>, CriterionRule, "SATISFIED",
          <<QuoteOf(text, cited)>>, {}, <<>>) :
        first \in Sequences(Words, 1, 4),
        text \in Sequences(Words \union {Ellipsis}, 1, 4),
        cited \in {2, NoReference}}

Offers ==
    {QuoteOf(<<"a", "b">>, 1), QuoteOf(<<"a", "b">>, 2),
     QuoteOf(<<"a", "b">>, NoReference), QuoteOf(<<"b", Ellipsis, "a">>, 2),
     QuoteOf(<<"a", "b", "a", "b">>, 1), QuoteOf(<<"a", "a">>, 1), QuoteOf(<<>>, 1)}

Answers ==
    {Task(<<"a", "b", "a">>, second, eligible, rule, state, offered, {2}, note) :
        second \in {<<"a", "b">>, <<"b", "b", "a">>},
        eligible \in {<<1, 2>>, <<2>>},
        rule \in {CriterionRule, DamageRule},
        state \in {"SATISFIED", "PRESENT", NoState},
        offered \in Sequences(Offers, 0, 3),
        note \in {Blanks, Wide}}

MCTasks == SingleQuotes \union Answers
===============================================================================
