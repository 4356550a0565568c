------------------------------ MODULE MCRetry -------------------------------
EXTENDS Retry

\* A FixedEndpointer of two endpoints, of which only the second is healthy.
MCAnswersFixed == { [eps |-> <<1, 2>>, err |-> NoErr] }

\* The same pool, which discovery may replace by an error.
MCAnswersDynamic ==
    MCAnswersFixed \cup { [eps |-> <<>>, err |-> [code |-> "sd", ep |-> 0]] }

\* The same pool, which discovery may empty.
MCAnswersEmptied ==
    MCAnswersFixed \cup { [eps |-> <<>>, err |-> NoErr] }

\* The same pool, which discovery may replace by an error or empty.
MCAnswersAll == MCAnswersDynamic \cup MCAnswersEmptied

=============================================================================
