------------------------- MODULE MCConnectorRefresh -------------------------
(* Model values for ConnectorRefresh: connections and vault paths. *)
EXTENDS ConnectorRefresh

CONSTANTS c1, home, elsewhere
=============================================================================
