-------------------------- MODULE MCTeamDispatcher --------------------------
EXTENDS TeamDispatcher

(* Three handlers: one per category and one interested in both.            *)
MCHandlerMask == [h \in Handlers |->
                    CASE h = "hPort"   -> {TEAM_PORT_CHANGE}
                      [] h = "hOption" -> {TEAM_OPTION_CHANGE}
                      [] OTHER         -> TEAM_ANY_CHANGE]
=============================================================================
