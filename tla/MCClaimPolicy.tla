---------------------------- MODULE MCClaimPolicy -----------------------------
(* Instances of ClaimPolicy: every text of at most two directives, a few longer    *)
(* ones, and cells that can attempt, verify only, or act on one of two effects.     *)
EXTENDS ClaimPolicy, SequencesExt

Fields ==
  {Field("build", "go"), Field("build", NoValue), Field("test", "unit"), Field("attempts", 0), Field("attempts", 2),
   Field("effect", "board"), Field("effect", NoValue), Field("interface", "h1"),
   Field("interface", "junk"), Field("payload", "json"), Field("payload", "text"),
   Field("origin", "external"), Field("unknown", "x")}

Board == <<Field("effect", "board"), Field("interface", "h1"), Field("payload", "json")>>

MCDirectives == Fields \cup {Blank, Field("interface", "h2"), Field("effect", "lamp")}

MCSpecs ==
  BoundedSeq(Fields, 2)
  \cup {Board, Board \o <<Field("interface", "h2")>>, Board \o <<Field("effect", "lamp")>>}
  \cup {Append(Board, f) : f \in Fields}
  \cup {<<f>> \o Board : f \in Fields}

Verifier == [roles |-> {"verify"}, tier |-> "none", models |-> {}, build |-> {}, test |-> {},
             effects |-> {}, executors |-> {}, leases |-> {}]
Author == [Verifier EXCEPT !.roles = {"attempt"}, !.tier = "small", !.models = {"model"}, !.build = {"go"}]
Effect(id, h, p) == [id |-> id, interface |-> h, priced |-> p]

MCCells ==
  {Verifier, Author,
   [Verifier EXCEPT !.effects = {Effect("board", "h1", TRUE)}, !.executors = {<<"board", "h1">>}],
   [Verifier EXCEPT !.effects = {Effect("board", "h2", TRUE)}, !.executors = {<<"board", "h2">>},
                    !.leases = {"board"}],
   [Author EXCEPT !.effects = {Effect("board", "h1", TRUE), Effect("lamp", "h1", FALSE)},
                  !.executors = {<<"board", "h1">>, <<"lamp", "h1">>}, !.leases = {"board"}]}

Calm == [reachable |-> TRUE, scoped |-> TRUE, status |-> "open", blocked |-> FALSE,
         attemptsDefault |-> 0, budgetOK |-> TRUE, decline |-> FALSE, yield |-> FALSE, claims |-> {1}]
Storm == [reachable |-> FALSE, scoped |-> FALSE, status |-> "vetoed", blocked |-> TRUE,
          attemptsDefault |-> 2, budgetOK |-> FALSE, decline |-> TRUE, yield |-> TRUE, claims |-> {1, 2, 3}]

(* All is well, but for one thing at most; or all is ill, but for one. *)
MCWorlds ==
  UNION {{[Calm EXCEPT ![f] = Storm[f]], [Storm EXCEPT ![f] = Calm[f]]} : f \in DOMAIN Calm}

================================================================================
