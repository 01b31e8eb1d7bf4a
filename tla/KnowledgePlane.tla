---------------------------- MODULE KnowledgePlane ----------------------------
(***************************************************************************)
(* The knowledge the agents cite.  RAG_PROVIDER (app/config.py), read when *)
(* the process starts, makes them search the index of the process itself   *)
(* or ask the RAG MCP server.  The two share no state and none of their    *)
(* steps depends on the other: a behaviour follows the plane that serves.  *)
(* What a call does when the server does not answer is CircuitBreaker's.   *)
(***************************************************************************)
EXTENDS KnowledgeBase, RagServer

VARIABLE provider   \* settings.rag_provider

planeVars == <<kbVars, ragVars, provider>>

PlaneInit ==
    /\ KnowledgeInit /\ RagInit
    /\ provider \in {"local", "mcp"}

PlaneNext ==
    /\ UNCHANGED provider
    /\ \/ provider = "local" /\ KnowledgeNext /\ UNCHANGED ragVars
       \/ provider = "mcp" /\ RagNext /\ UNCHANGED kbVars

\* Type invariant of both planes.
PlaneTypeOK == KnowledgeTypes /\ RagTypes /\ provider \in {"local", "mcp"}

PlaneSpec == PlaneInit /\ [][PlaneNext]_planeVars
=============================================================================
