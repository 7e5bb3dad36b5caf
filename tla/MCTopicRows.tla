------------------------------ MODULE MCTopicRows ------------------------------
(* A row of the map at a rate limit: the two boundaries of one lane.        *)
EXTENDS TopicRows

MCLeft == [l \in Lane |-> CHOOSE k \in Key : k # Whole]
MCRight == [l \in Lane |-> Whole]
=============================================================================
