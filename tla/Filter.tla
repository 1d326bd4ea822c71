------------------------------- MODULE Filter -------------------------------
(***************************************************************************)
(* Filter expressions (ui/filter.go): the recursive descent parser, and    *)
(* the grammar its comment gives.  The text in the prompt is a sequence of *)
(* tokens, typed one by one; at each moment Enter would parse it.          *)
(*                                                                         *)
(* A connection is the set of terms that match it.  A node of the parsed   *)
(* expression is the set of connections it selects, since eval is all that *)
(* is ever done with it.                                                   *)
(***************************************************************************)
EXTENDS Integers, Sequences

CONSTANTS
  Terms,          \* terms that are understood: barewords, key=value, signals
  Unknown,        \* terms that name an unknown key, signal or level
  MaxTokens,      \* bound on the length of the text
  NoNode          \* the nil node

ASSUME FilterAssumption ==
  /\ MaxTokens \in Nat
  /\ Terms \cap Unknown = {}
  /\ (Terms \cup Unknown) \cap {"(", ")", "and", "or", "not", ""} = {}
  /\ \A node \in SUBSET SUBSET Terms : node # NoNode

VARIABLE text     \* AppModel.filterBuf, as tokenizeFilter splits it

Tokens == Terms \cup Unknown \cup {"(", ")", "and", "or", "not"}

Connections == SUBSET Terms

-----------------------------------------------------------------------------
(* The parser.  Each method returns the node it parsed, the position it    *)
(* stopped at, and whether a name was unknown; the two loops start from    *)
(* what was parsed before them.  Methods that call one another through     *)
(* `run`, the parser of this text, are tied together in Parser.            *)

Peek(q, pos) == IF pos <= Len(q) THEN q[pos] ELSE ""

Parsed(node, pos, err) == [node |-> node, pos |-> pos, err |-> err]

(* Nothing parsed, at this position. *)
NothingAt(pos) == Parsed(NoNode, pos, FALSE)

(* A call of a method, with what was parsed before it, and what it may     *)
(* return; parseNot is given just a position.                              *)
Results(q) == [node : {NoNode} \cup SUBSET Connections, pos : 1 .. Len(q) + 1, err : BOOLEAN]
Calls(q) == {"not", "andRest", "orRest"} \X Results(q)

(* The expression so far, l, once r was parsed behind it. *)
Joined(l, r, node) == Parsed(IF l.node = NoNode THEN r.node ELSE node, r.pos, l.err \/ r.err)

(* Nothing was found behind l. *)
Stopped(l, r) == Parsed(l.node, r.pos, l.err \/ r.err)

(* makePred: a keyword that turns up where a term is due is a bareword; it *)
(* matches none of the connections here.                                   *)
MakePred(tok, pos) == Parsed({c \in Connections : tok \in c}, pos, tok \in Unknown)

(* parseAnd: a conjunction, also of adjacent terms. *)
ParseAnd(run, pos) == run[<<"andRest", run[<<"not", NothingAt(pos)>>]>>]

ParseOr(run, pos) == run[<<"orRest", ParseAnd(run, pos)>>]

ParsePrimary(run, q, pos) ==
  LET t     == Peek(q, pos)
      inner == ParseOr(run, pos + 1)
  IN  CASE t \in {"", ")"} -> NothingAt(pos)
        [] t = "("         -> IF Peek(q, inner.pos) = ")"
                                THEN [inner EXCEPT !.pos = @ + 1] ELSE inner
        [] OTHER           -> MakePred(t, pos + 1)

ParseNot(run, q, pos) ==
  LET child == run[<<"not", NothingAt(pos + 1)>>]
  IN  IF Peek(q, pos) # "not" THEN ParsePrimary(run, q, pos)
      ELSE IF child.node = NoNode THEN child
      ELSE [child EXCEPT !.node = Connections \ @]

(* Mutant: adjacent terms are not a conjunction. *)
AndRestWritten(run, q, l) ==
  LET r == run[<<"not", NothingAt(l.pos + 1)>>]
  IN  IF Peek(q, l.pos) # "and" THEN l
      ELSE IF r.node = NoNode THEN Stopped(l, r)
      ELSE run[<<"andRest", Joined(l, r, l.node \cap r.node)>>]

(* The loop of parseAnd, *)
AndRest(run, q, l) ==
  LET t == Peek(q, l.pos)
      r == run[<<"not", NothingAt(IF t = "and" THEN l.pos + 1 ELSE l.pos)>>]
  IN  IF t \in {"", ")", "or"} THEN l
      ELSE IF r.node = NoNode THEN Stopped(l, r)
      ELSE run[<<"andRest", Joined(l, r, l.node \cap r.node)>>]

(* and that of parseOr. *)
OrRest(run, q, l) ==
  LET r == ParseAnd(run, l.pos + 1)
  IN  IF Peek(q, l.pos) # "or" THEN l
      ELSE IF r.node = NoNode THEN Stopped(l, r)
      ELSE run[<<"orRest", Joined(l, r, l.node \cup r.node)>>]

Answer(run, q, call) ==
  CASE call[1] = "not"     -> ParseNot(run, q, call[2].pos)
    [] call[1] = "andRest" -> AndRest(run, q, call[2])
    [] call[1] = "orRest"  -> OrRest(run, q, call[2])

Parser(q) == LET run[call \in Calls(q)] == Answer(run, q, call) IN run

(* parseFilter: what is left behind the expression is not looked at. *)
Parse(q) == ParseOr(Parser(q), 1)

(* SetQuery: the connections the filter lets through, no node if the query *)
(* is rejected.                                                            *)
SetQuery(q) ==
  IF Parse(q).err THEN NoNode ELSE IF Parse(q).node = NoNode THEN Connections ELSE Parse(q).node

FilterInit == text = <<>>

(* A key types the next token. *)
Type ==
  /\ Len(text) < MaxTokens
  /\ \E tok \in Tokens : text' = Append(text, tok)

FilterSpec == FilterInit /\ [][Type]_text

-----------------------------------------------------------------------------
(* The grammar in the comment above parseFilter.  Each category has the    *)
(* meanings of the tokens i to j of q as an expression of it: none when    *)
(* they are not one, two if they were ambiguous.  `means` has the meanings *)
(* of each category and span.                                              *)

Spans(q) == {"or", "and", "not"} \X (1 .. Len(q) + 1) \X (0 .. Len(q))

PrimaryMeans(means, q, i, j) ==
  IF i > j THEN {}
  ELSE IF i = j /\ q[i] \in Terms \cup Unknown THEN {{c \in Connections : q[i] \in c}}
  ELSE IF q[i] = "(" /\ q[j] = ")" THEN means[<<"or", i + 1, j - 1>>]
  ELSE {}

NotMeans(means, q, i, j) ==
  IF i < j /\ q[i] = "not"
    THEN {Connections \ m : m \in means[<<"not", i + 1, j>>]}
    ELSE PrimaryMeans(means, q, i, j)

(* What two expressions can mean together. *)
Meets(ms, ns) == {m \cap n : m \in ms, n \in ns}
Joins(ms, ns) == {m \cup n : m \in ms, n \in ns}

(* A conjunction goes on at k: "and" may be left out. *)
Operand(q, k) == IF q[k] = "and" THEN k + 1 ELSE k

AndMeans(means, q, i, j) ==
  means[<<"not", i, j>>] \cup
  UNION {Meets(means[<<"and", i, k - 1>>], means[<<"not", Operand(q, k), j>>]) : k \in i + 1 .. j}

OrMeans(means, q, i, j) ==
  means[<<"and", i, j>>] \cup
  UNION {Joins(means[<<"or", i, k - 1>>], means[<<"and", k + 1, j>>]) :
           k \in {k \in i + 1 .. j - 1 : q[k] = "or"}}

Meant(means, q, span) ==
  CASE span[1] = "not" -> NotMeans(means, q, span[2], span[3])
    [] span[1] = "and" -> AndMeans(means, q, span[2], span[3])
    [] span[1] = "or"  -> OrMeans(means, q, span[2], span[3])

Grammar(q) == LET means[span \in Spans(q)] == Meant(means, q, span) IN means

Means(q) == Grammar(q)[<<"or", 1, Len(q)>>]

Names(q) == {q[i] : i \in DOMAIN q}

(* A query of the grammar selects the connections the grammar says: "not"  *)
(* binds tighter than "and", written or implied, and "and" tighter than    *)
(* "or"; parentheses group; and the grammar leaves no choice.  One with an *)
(* unknown name is rejected, wherever the name stands.  And of any text at *)
(* all, of the grammar or not, an unknown name is overlooked only behind a *)
(* ")": that is where the parser may stop before the end, and parseFilter  *)
(* does not look.                                                          *)
SelectsWhatGrammarSays ==
  /\ Means(text) # {} =>
       IF Names(text) \cap Unknown = {} THEN Means(text) = {SetQuery(text)}
                                        ELSE SetQuery(text) = NoNode
  /\ SetQuery(text) # NoNode =>
       \A i \in DOMAIN text :
         text[i] \in Unknown => \E k \in 1 .. i - 1 : text[k] = ")"
=============================================================================
