---------------------------- MODULE MCApiWorker ----------------------------
\* Two requests; of the calls one per behaviour: with and without a fallback,
\* a stream, an embedding, a statement that tells the driver's own errors and one that
\* wraps them.
EXTENDS ApiWorker

MCOutcomes == {"answer", "connection", "filter", "not_json", "lost", "refused"}
MCCalls == {"cypher", "stream", "analyze", "embed", "query", "similar"}
=============================================================================
