------------------------- MODULE SessionCorrections -------------------------
(***************************************************************************)
(* The questions of QuerySession together with the texts of their queries:  *)
(* what the LLM wrote for a question, and what CypherCorrections made of it  *)
(* before it was run, kept for other questions or written again.            *)
(***************************************************************************)
EXTENDS QuerySession, CypherCorrections

CONSTANTS
  Written, \* bound: what the LLM writes of its own
  NamesOf  \* the names extracted from a question

CypherText == [cypher: Seq(Lines), params: [Params -> Seq(Value)]]

CorrectedText == [written: CypherText, names: Questions \cup {None},
                  cypher: Seq(Lines), params: [Params -> Seq(Value)]]

ASSUME WrittenAssumption ==
  /\ Written \subseteq CypherText
  /\ NamesOf \in [Questions \cup {None} -> Seq(Spelled)]
  /\ None \notin CorrectedText

VARIABLE text \* the last query generated for each question

cvars == <<vars, text>>

\* The query of the LLM, whose names it was corrected with, and the query that
\* goes on to the executor.
Corrected(written, names) ==
  LET out == ApplyCorrections(written.cypher, written.params, NamesOf[names])
  IN [written |-> written, names |-> names,
      cypher |-> out.cypher, params |-> out.params]

\* The LLM is shown a query that was corrected, and may write it once more:
Shown(t) == [cypher |-> t.cypher, params |-> t.params]

\* one that failed, and
Rewritable(q) ==
  LET failed == state[q].failed_cypher
  IN IF failed = None THEN {} ELSE {Shown(text[failed.by])}

\* its answer, when it names properties that the schema does not have.
Answers(q, names) ==
  LET first == Written \cup Rewritable(q)
  IN first \cup {Shown(Corrected(written, names)) : written \in first}

\* q's run has got a query from the LLM.
Generates(q) ==
  /\ node[q] = "cypher_generator" /\ ~state[q].skip_generation
  /\ node'[q] = "graph_executor"

Write(q) ==
  /\ Generate(q) /\ Generates(q)
  /\ LET names == GeneratorNames(state[q])
     IN \E written \in Answers(q, names) :
          text' = [text EXCEPT ![q] = Corrected(written, names)]

WriteNothing ==
  /\ Next /\ ~\E q \in Questions : Generates(q)
  /\ UNCHANGED text

CInit == Init /\ text = [q \in Questions |-> None]
CNext == (\E q \in Questions : Write(q)) \/ WriteNothing
CSpec == CInit /\ [][CNext]_cvars

-----------------------------------------------------------------------------

\* The query keeps what the LLM asked for and is settled: correcting it again
\* changes nothing.  A number is taken for a name only once it is text.
WellCorrected(t) ==
  LET es == NamesOf[t.names]
      again == ApplyCorrections(t.cypher, t.params, es)
  IN /\ KeepsLines(t.written.cypher, t.cypher, t.params)
     /\ \A p \in Params :
          LET from == t.written.params[p] IN
          /\ DOMAIN t.params[p] = DOMAIN from
          /\ \A i \in DOMAIN from :
               /\ KeepsValue(from[i], t.params[p][i], es,
                             p \in ToLowerParams(t.cypher))
               /\ ~from[i].number => again.params[p][i] = t.params[p][i]
     /\ again.cypher = t.cypher

\* The query a run executes, its own or one of the cache, its first or one
\* written again after a failure, was corrected with the names it was generated
\* for, and asks for what the LLM asked for: the same rows pass its conditions,
\* but x.name IN $p does not look at the case; toLower is given text only; a
\* name is not cut to a shorter one; and lines are lost only where a query
\* aggregates and matches again (the order of apply_corrections()).
CorrectionsSound ==
  \A q \in Questions : node[q] = "graph_executor" =>
    LET query == state[q].cypher_query
        t == text[query.by]
    IN /\ t # None /\ t.names = query.names
       /\ WellCorrected(t)
=============================================================================
