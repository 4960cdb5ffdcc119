------------------------------ MODULE ClaimPolicy ------------------------------
(***************************************************************************)
(* The claim policy of a cell (claim.go): what a ticket's text asks for, what   *)
(* the cell declares (cell/capabilities.go) and holds (loop/effectful.go), and   *)
(* the first thing that keeps the cell from claiming the ticket.                 *)
(*                                                                         *)
(* A text is the sequence of the directives in it, each [key, value]: the fields *)
(* of `factory-requires:` lines, "payload" for `factory-effect:`, "origin" for    *)
(* `factory-origin:`.  The system around the policy acts on its answer: whoever  *)
(* a refusal is addressed to removes what it names, and the cell serves what it   *)
(* claims.                                                                   *)
(***************************************************************************)
EXTENDS Integers, Sequences, FiniteSets, FiniteSetsExt

CONSTANTS
  Directives,        \* what a line or a field of a text may ask for
  Specs,             \* texts a ticket may have
  Cells,             \* configurations the cell may have: what it declares and holds
  Worlds,            \* what a pass may find around the ticket: the other inputs
  Aliases, Hashes,   \* names of effectful capabilities, and interfaces that are object hashes
  MaxServed,         \* bound
  NoValue

VARIABLES in, acted, verdict
vars == <<in, acted, verdict>>

--------------------------------------------------------------------------------
(* ParseRequirements. *)

Where(spec, key) == {i \in DOMAIN spec : spec[i].key = key}
Values(spec, key) == {spec[i].value : i \in Where(spec, key)}
Tokens(spec, key) == Values(spec, key) \ {NoValue}

LastOf(spec, places, default) == IF places = {} THEN default ELSE spec[Max(places)].value
FirstOf(spec, places, default) == IF places = {} THEN default ELSE spec[Min(places)].value

(* A number that is not positive is passed over. *)
AttemptsOf(spec) == LastOf(spec, {i \in Where(spec, "attempts") : spec[i].value > 0}, 0)

(* Naming an interface is enough to be an effect, if a malformed one.            *)

(* Mutant: only naming a capability is. *)
EffectfulByAlias(spec) == Values(spec, "effect") # {}
Effectful(spec) == Values(spec, "effect") \cup Values(spec, "interface") # {}

ExternallyOriginated(spec) == "external" \in Values(spec, "origin")

Capability(spec) == LastOf(spec, Where(spec, "effect"), NoValue)
Interface(spec) == LastOf(spec, Where(spec, "interface"), NoValue)
Payload(spec) == FirstOf(spec, Where(spec, "payload"), NoValue)

(* validateEffect: the causes in the order they are looked at. *)
Defects(spec) == <<
  <<"NoCapability",     Capability(spec) = NoValue>>,
  <<"NoInterface",      Interface(spec) = NoValue>>,
  <<"NotAHash",         Interface(spec) \notin Hashes>>,
  <<"NoParameters",     Payload(spec) = NoValue>>,
  <<"NotJSON",          Payload(spec) = "text">>,
  <<"SeveralAttempts",  AttemptsOf(spec) > 1>>,
  <<"BuildOrTest",      Tokens(spec, "build") \cup Tokens(spec, "test") # {}>> >>

(* The first that holds. *)
SkipNone == "None"
Holding(obstacles) == {k \in DOMAIN obstacles : obstacles[k][2]}
FirstReason(obstacles) ==
  IF Holding(obstacles) = {} THEN SkipNone ELSE obstacles[Min(Holding(obstacles))][1]

Malformed(spec) == FirstReason(Defects(spec))

--------------------------------------------------------------------------------
(* What the cell declares and holds. *)

(* Capabilities.Validate: to attempt takes a model, and an alias means one thing. *)
Coherent(c) ==
  /\ c.roles # {}
  /\ (c.tier = "none") <=> (c.models = {})
  /\ "attempt" \in c.roles => c.tier # "none"
  /\ \A e, f \in c.effects : e.id = f.id => e = f
  /\ \A e \in c.effects : e.interface \in Hashes

(* Mutant: the tests asked for are not compared. *)
Missing(c, spec) ==
  [build |-> Tokens(spec, "build") \ c.build, test |-> Tokens(spec, "test") \ c.test]

(* effectGrants: an executor, and a lease unless nothing is to be paid. *)
EffectGrants(c) ==
  {e \in c.effects : <<e.id, e.interface>> \in c.executors /\ (e.priced => e.id \in c.leases)}

(* Mutant: the alias is enough. *)
HasGrantByAlias(c, spec) == \E g \in EffectGrants(c) : g.id = Capability(spec)
HasGrant(c, spec) ==
  \E g \in EffectGrants(c) : g.id = Capability(spec) /\ g.interface = Interface(spec)

--------------------------------------------------------------------------------
(* Evaluate. *)

(* The limit configured for the cell, else the ticket's, else the budget's.       *)

(* Mutant: the ticket's comes first. *)
MaxAttemptsTicketFirst(i) ==
  IF AttemptsOf(i.spec) > 0 THEN AttemptsOf(i.spec)
  ELSE IF i.perCell > 0 THEN i.perCell
  ELSE IF i.attemptsDefault > 0 THEN i.attemptsDefault ELSE 1
MaxAttempts(i) ==
  IF i.perCell > 0 THEN i.perCell
  ELSE IF AttemptsOf(i.spec) > 0 THEN AttemptsOf(i.spec)
  ELSE IF i.attemptsDefault > 0 THEN i.attemptsDefault ELSE 1

Action(spec) == <<Capability(spec), Interface(spec), Payload(spec)>>

(* An effect has been acted on when its own parameters have (priorEffect).        *)
PriorEffect(spec, done) == Malformed(spec) = SkipNone /\ Action(spec) \in done

(* Mutant: a claim that has run out counts. *)
AllClaims(i) == i.claims
FreshClaims(i) == {notAfter \in i.claims : notAfter >= i.now}

(* Mutant: one more than allowed. *)
EnoughAndOne(i) == i.attempts > MaxAttempts(i)
Enough(i) == i.attempts >= MaxAttempts(i)

External(i) == i.decline /\ ExternallyOriginated(i.spec)

AttemptObstacles(i) == <<
  <<"ExternallyOriginated", External(i)>>,
  <<"NotAttempting",        "attempt" \notin i.cell.roles>>,
  <<"NoExecutor",           ~i.reachable>>,
  <<"Unschedulable",        ~i.scoped>>,
  <<"Vetoed",               i.status = "vetoed">>,
  <<"Blocked",              i.blocked>>,
  <<"Capability",           Missing(i.cell, i.spec) # [build |-> {}, test |-> {}]>>,
  <<"AlreadyAttempted",     Enough(i)>>,
  <<"Budget",               ~i.budgetOK>>,
  <<"ForeignClaim",         i.yield /\ FreshClaims(i) # {}>> >>

EffectObstacles(i, done) == <<
  <<"ExternallyOriginated", External(i)>>,
  <<"EffectMalformed",      Malformed(i.spec) # SkipNone>>,
  <<"Unschedulable",        ~i.scoped>>,
  <<"Vetoed",               i.status = "vetoed">>,
  <<"Blocked",              i.blocked>>,
  <<"NoAuthority",          ~HasGrant(i.cell, i.spec)>>,
  <<"AlreadyAttempted",     PriorEffect(i.spec, done)>>,
  <<"ForeignClaim",         i.yield /\ FreshClaims(i) # {}>> >>

Obstacles(i, done) ==
  IF Effectful(i.spec) THEN EffectObstacles(i, done) ELSE AttemptObstacles(i)

Evaluate(i, done) ==
  LET skip == FirstReason(Obstacles(i, done))
  IN [claim |-> skip = SkipNone, skip |-> skip,
      attempt |-> IF skip # SkipNone THEN 0 ELSE IF Effectful(i.spec) THEN 1 ELSE i.attempts + 1]

--------------------------------------------------------------------------------
(* What follows from an answer. *)

Become(i, done) == in' = i /\ acted' = done /\ verdict' = Evaluate(i, done)

(* A directive struck out leaves a line that asks for nothing. *)
Field(k, v) == [key |-> k, value |-> v]
Blank == Field("none", NoValue)
Drop(spec, keys) == [k \in DOMAIN spec |-> IF spec[k].key \in keys THEN Blank ELSE spec[k]]

(* The author of a ticket mends what is wrong with its text. *)
Mend(spec) ==
  {s \in
     {Append(spec, Field("effect", e)) : e \in Aliases}
     \cup {Append(spec, Field("interface", h)) : h \in Hashes}
     \cup {Append(Drop(spec, {"payload"}), Field("payload", "json")),
           Drop(spec, {"attempts"}), Drop(spec, {"build", "test"})} :
       \A k \in Holding(Defects(s)) : Defects(s)[k][1] # Malformed(spec)}

(* Its operator configures the cell, by configurations that are coherent.         *)
Configured ==
  CASE verdict.skip = "NotAttempting" ->
         [in.cell EXCEPT !.roles = @ \cup {"attempt"}, !.tier = "small", !.models = {"model"}]
    [] verdict.skip = "Capability" ->
         [in.cell EXCEPT !.build = @ \cup Missing(in.cell, in.spec).build,
                         !.test = @ \cup Missing(in.cell, in.spec).test]
    [] verdict.skip = "NoAuthority" ->
         LET e == [id |-> Capability(in.spec), interface |-> Interface(in.spec), priced |-> TRUE]
         IN [in.cell EXCEPT !.effects = {f \in @ : f.id # e.id} \cup {e},
                            !.executors = @ \cup {<<e.id, e.interface>>}, !.leases = @ \cup {e.id}]
    [] OTHER -> in.cell

Repair ==
  /\ ~verdict.claim
  /\ \/ /\ verdict.skip = "ExternallyOriginated"
        /\ Become([in EXCEPT !.decline = FALSE], acted)
     \/ /\ verdict.skip \in {"NotAttempting", "Capability", "NoAuthority"}
        /\ Become([in EXCEPT !.cell = Configured], acted)
     \/ /\ verdict.skip = "EffectMalformed"
        /\ \E s \in Mend(in.spec) : Become([in EXCEPT !.spec = s], acted)
     \/ /\ verdict.skip = "NoExecutor"
        /\ Become([in EXCEPT !.reachable = TRUE], acted)
     \/ /\ verdict.skip = "Unschedulable"
        /\ Become([in EXCEPT !.scoped = TRUE], acted)
     \/ /\ verdict.skip = "Vetoed"
        /\ Become([in EXCEPT !.status = "open"], acted)
     \/ /\ verdict.skip = "Blocked"
        /\ Become([in EXCEPT !.blocked = FALSE], acted)
     \/ /\ verdict.skip = "AlreadyAttempted" /\ ~Effectful(in.spec)
        /\ Become([in EXCEPT !.perCell = in.attempts + 1], acted)
     \/ /\ verdict.skip = "Budget"
        /\ Become([in EXCEPT !.budgetOK = TRUE], acted)
     \/ /\ verdict.skip = "ForeignClaim"
        /\ Become([in EXCEPT !.now = Min(FreshClaims(in)) + 1], acted)

(* The cell acts on its claim. *)
Serve ==
  /\ verdict.claim /\ in.attempts < MaxServed
  /\ IF Effectful(in.spec)
     THEN Become(in, acted \cup {Action(in.spec)})
     ELSE Become([in EXCEPT !.attempts = verdict.attempt], acted)

(* Nothing is left to do. *)
Rest ==
  /\ \/ verdict.claim /\ in.attempts = MaxServed
     \/ verdict.skip = "AlreadyAttempted" /\ Effectful(in.spec)
  /\ UNCHANGED vars

Inputs ==
  {[spec |-> s, cell |-> c, attempts |-> 0, perCell |-> 0, now |-> 2,
    reachable |-> w.reachable, scoped |-> w.scoped, status |-> w.status, blocked |-> w.blocked,
    attemptsDefault |-> w.attemptsDefault, budgetOK |-> w.budgetOK, decline |-> w.decline,
    yield |-> w.yield, claims |-> w.claims] :
     s \in Specs, c \in Cells, w \in Worlds}

(* The inputs that are neither the ticket's text nor the cell.                   *)
World == [reachable : BOOLEAN, scoped : BOOLEAN, status : STRING, blocked : BOOLEAN,
          attemptsDefault : Int, budgetOK : BOOLEAN, decline : BOOLEAN, yield : BOOLEAN,
          claims : SUBSET Int]
CellFields == {"roles", "tier", "models", "build", "test", "effects", "executors", "leases"}

(* A number is asked for where a number is read; whatever the author may write is *)
(* a directive.                                                              *)
ASSUME TextAssumption ==
  /\ Specs \subseteq Seq(Directives)
  /\ \A d \in Directives : d.key = "attempts" => d.value \in Int
  /\ {Field("effect", e) : e \in Aliases} \cup {Field("interface", h) : h \in Hashes}
       \cup {Field("payload", "json"), Blank} \subseteq Directives
  /\ NoValue \notin Aliases \cup Hashes \cup {"json"}

(* A cell starts with capabilities that validate. *)
ASSUME CellAssumption == \A c \in Cells : DOMAIN c = CellFields /\ Coherent(c)

ASSUME WorldAssumption == Worlds \subseteq World /\ \A w \in Worlds : IsFiniteSet(w.claims)

ASSUME BoundAssumption == MaxServed \in Nat

Init ==
  /\ in \in Inputs /\ acted = {}
  /\ verdict = Evaluate(in, acted)

Next == Repair \/ Serve \/ Rest

Spec == Init /\ [][Next]_vars

--------------------------------------------------------------------------------
(* The answer has its type, whoever acted on earlier ones: the attempt claimed is  *)
(* within the limit the ticket and the operator set, and the cell's configuration  *)
(* is one a peer would accept (claim.go Verdict, capabilities.go Validate).        *)
TypeOK ==
  /\ Coherent(in.cell)
  /\ in.attempts \in 0..MaxServed /\ in.now \in Nat
  /\ verdict.claim => verdict.attempt \in 1..MaxAttempts(in)
  /\ ~verdict.claim => verdict.attempt = 0

(* A ticket is claimed only by a cell that can do all of it, read from the fields  *)
(* of its text one by one: every build and test token declared, or one action the  *)
(* cell has executor and lease for under that very name and interface              *)
(* (claim.go Evaluate, evaluateEffect).                                            *)
ClaimIsLicensed ==
  verdict.claim =>
    /\ in.scoped /\ in.status # "vetoed" /\ ~in.blocked
    /\ \A k \in DOMAIN in.spec :
         LET key == in.spec[k].key
             value == in.spec[k].value
         IN /\ key = "origin" /\ value = "external" => ~in.decline
            /\ key = "build" /\ value # NoValue => value \in in.cell.build
            /\ key = "test" /\ value # NoValue => value \in in.cell.test
            /\ key \in {"effect", "interface"} =>
                 \E e \in in.cell.effects :
                   /\ e.id \in Values(in.spec, "effect") /\ e.interface \in Values(in.spec, "interface")
                   /\ <<e.id, e.interface>> \in in.cell.executors
                   /\ e.priced => e.id \in in.cell.leases

(* A text that names an effect, however badly, is never answered by authoring      *)
(* code: not claimed as an attempt, nor refused for what only an attempt needs      *)
(* (claim.go:102-106).                                                             *)
EffectsAreNeverAuthored ==
  Values(in.spec, "effect") \cup Values(in.spec, "interface") # {} =>
    /\ in.attempts = 0
    /\ verdict.attempt <= 1
    /\ verdict.skip \notin {"NotAttempting", "NoExecutor", "Capability", "Budget"}

(* Other cells' claims are politeness: without them the answer is the same, or the *)
(* claim that one of them, still fresh, has put off (claim.go:474-478).            *)
ForeignClaimsOnlyDelay ==
  LET alone == Evaluate([in EXCEPT !.claims = {}], acted)
  IN \/ verdict = alone
     \/ /\ alone.claim /\ verdict.skip = "ForeignClaim"
        /\ \E notAfter \in in.claims : in.now <= notAfter

(* How far an answer is from a claim: its place among the checks, the place of the *)
(* defect, the claims to wait for.                                                 *)
Place(obstacles) == Cardinality({k \in DOMAIN obstacles : \A j \in 1..k : j \notin Holding(obstacles)})
Progress(i, done) ==
  <<Place(Obstacles(i, done)), IF Effectful(i.spec) THEN Place(Defects(i.spec)) ELSE 0,
    -Cardinality(FreshClaims(i))>>
Further(a, b) == \E k \in 1..3 : a[k] > b[k] /\ \A j \in 1..k-1 : a[j] = b[j]

(* The reason reported is the first thing that would have to change: whoever       *)
(* changes what it names, and no more, never hears it again and never hears an     *)
(* earlier one, up to the claim (claim.go:399-405).                                *)
RepairsAdvance ==
  [][Repair => Further(Progress(in', acted'), Progress(in, acted))]_vars

================================================================================
