--------------------------- MODULE CommandsProofs ---------------------------
(***************************************************************************)
(* For any command lines and requests, any of which may fail at any of its   *)
(* writes, any directories, and any plan and split of a text: a success      *)
(* leaves what it says it left, a failure loses nothing but what it was told *)
(* to replace or remove, and nothing is done for a caller without the        *)
(* privilege it needs.                                                     *)
(*                                                                         *)
(* The sessions stay well formed (CommandsInv), and each command and each     *)
(* route of such sessions has an effect that keeps its word (KeepsWord).     *)
(***************************************************************************)
EXTENDS Commands, SequenceTheorems, WellFoundedInduction, TLAPS

-----------------------------------------------------------------------------
(* What every command and every route does.                                *)

Kinds == {"execution", "reflection", "chunk", "graph_node"}

IsDocument(d) ==
    /\ DOMAIN d = {"kind", "source", "text", "cut"}
    /\ d.kind \in Kinds

IsSession(s) ==
    /\ DOMAIN s = {"docs", "saved", "nodes", "edges"}
    /\ \A d \in s.docs : IsDocument(d)
    /\ ~s.saved => s.nodes = {} /\ s.edges = {}

CommandsInv ==
    /\ \A d \in Path : IsSession(sessions[d])
    /\ \A file \in DOMAIN disk : file \in DOMAIN Content /\ disk[file] \in Range(Content[file])

IsAnswer(a) ==
    DOMAIN a = {"name", "web", "dir", "code", "warned", "told", "by", "ran", "audit"}

\* What CommandsKeepTheirWord says of the answer about one session.
WordKept(a, before, after) ==
    /\ NothingLost(a, before, after)
    /\ ~Succeeded(a) => FailureIsHarmless(a, before, after)
    /\ Succeeded(a) /\ ~a.warned => SuccessIsComplete(a, before, after)

\* And of all the effect.
KeepsWord(effect) ==
    LET a == effect.last
    IN  /\ a.dir \in Path \cup {None}
        /\ \A d \in effect.made \ made : a.dir # None /\ IsPrefix(d, a.dir)
        /\ a.web /\ a.dir # None => IsPrefix(Root, a.dir)
        /\ NoPrivilegeByDefault(a)
        /\ a.dir # None => IsSession(effect.session) /\ WordKept(a, sessions[a.dir], effect.session)

\* None stands for no directory.
LEMMA NoneIsNoPath == None \notin Path
  BY CommandsAssumption

\* Effects on no session.
LEMMA NothingHappens ==
    ASSUME NEW a, a.dir = None, NoPrivilegeByDefault(a)
    PROVE  KeepsWord(Effect(a))
  BY DEF KeepsWord, Effect

\* A command that refuses its arguments, one that touches nothing and a route that
\* only answers keep their word.
LEMMA RefusedKeeps == ASSUME NEW name PROVE KeepsWord(Refused(name))
  BY NothingHappens DEF Refused, Answer, NoPrivilegeByDefault

LEMMA DoneKeeps == ASSUME NEW name PROVE KeepsWord(Done(name))
  BY NothingHappens DEF Done, Answer, NoPrivilegeByDefault

LEMMA RespondsKeeps == ASSUME NEW name, NEW code PROVE KeepsWord(Responds(name, code))
  BY NothingHappens DEF Responds, Answer, NoPrivilegeByDefault

\* Effects on a session.
LEMMA SomethingHappens ==
    ASSUME NEW d \in Path, NEW a, IsAnswer(a), a.ran = {}, a.web => IsPrefix(Root, d),
           NEW f, NEW dirs \in {made, Made(d, f)}, NEW s, IsSession(s),
           WordKept([a EXCEPT !.dir = d], sessions[d], s)
    PROVE  KeepsWord(On(d, a, dirs, s))
  <1> DEFINE b == [a EXCEPT !.dir = d]
  <1>1. b.dir = d /\ b.web = a.web /\ b.ran = {} /\ b.told = a.told
    BY DEF IsAnswer
  <1>2. NoPrivilegeByDefault(b)
    BY <1>1 DEF NoPrivilegeByDefault
  <1>3. \A p \in dirs \ made : IsPrefix(p, d)
    BY DEF Made
  <1>4. d # None
    BY NoneIsNoPath
  <1>5. On(d, a, dirs, s) = [last |-> b, made |-> dirs, session |-> s]
    BY DEF On
  <1> HIDE DEF b
  <1>6. WordKept(b, sessions[b.dir], s)
    BY <1>1 DEF b
  <1> QED BY <1>1, <1>2, <1>3, <1>4, <1>5, <1>6 DEF KeepsWord

\* A command that leaves the session as it is, and has not been asked to change
\* it, or fails, or warns.
LEMMA ReadsKeep ==
    ASSUME CommandsInv, NEW d \in Path, NEW a, IsAnswer(a), a.ran = {}, a.web => IsPrefix(Root, d),
           NEW f, NEW dirs \in {made, Made(d, f)},
           \/ a.name \notin {"run", "index", "gc"} /\ (a.name = "graph" => a.web)
           \/ a.warned \/ ~Succeeded(a)
    PROVE  KeepsWord(On(d, a, dirs, sessions[d]))
  <1> DEFINE b == [a EXCEPT !.dir = d]
             s == sessions[d]
  <1>1. b.name = a.name /\ b.web = a.web /\ b.warned = a.warned /\ b.code = a.code
    BY DEF IsAnswer
  <1>2. IsSession(s)
    BY DEF CommandsInv
  <1> HIDE DEF b, s
  <1>3. NothingLost(b, s, s) /\ FailureIsHarmless(b, s, s)
    BY DEF NothingLost, FailureIsHarmless
  <1>4. Succeeded(b) /\ ~b.warned => SuccessIsComplete(b, s, s)
    <2>1. CASE a.name \notin {"run", "index", "gc"} /\ (a.name = "graph" => a.web)
      BY <1>1, <2>1 DEF SuccessIsComplete
    <2>2. CASE a.warned \/ ~Succeeded(a)
      BY <1>1, <2>2 DEF Succeeded
    <2> QED BY <2>1, <2>2
  <1>5. WordKept([a EXCEPT !.dir = d], sessions[d], sessions[d])
    BY <1>3, <1>4 DEF WordKept, b, s
  <1> QED BY <1>2, <1>5, SomethingHappens DEF s

\* The record a command ends with, and each way a command changes a field of it.
LEMMA AnswerIs ==
    ASSUME NEW name, NEW code
    PROVE  LET a == Answer(name, code)
           IN  /\ IsAnswer(a) /\ a.name = name /\ a.code = code /\ a.told = <<>> /\ a.ran = {}
               /\ ~a.web /\ ~a.warned
  BY DEF Answer, IsAnswer

\* What changes of an answer, and what does not.
LEMMA Warns ==
    ASSUME NEW a, IsAnswer(a), NEW w
    PROVE  LET b == [a EXCEPT !.warned = w]
           IN  /\ IsAnswer(b) /\ b.name = a.name /\ b.code = a.code /\ b.told = a.told /\ b.ran = a.ran
               /\ b.web = a.web /\ b.warned = w
  BY DEF IsAnswer

LEMMA Ends ==
    ASSUME NEW a, IsAnswer(a), NEW c
    PROVE  LET b == [a EXCEPT !.code = c]
           IN  /\ IsAnswer(b) /\ b.name = a.name /\ b.code = c /\ b.told = a.told /\ b.ran = a.ran
               /\ b.web = a.web /\ b.warned = a.warned
  BY DEF IsAnswer

LEMMA IsTold ==
    ASSUME NEW a, IsAnswer(a), NEW t
    PROVE  LET b == [a EXCEPT !.told = t]
           IN  /\ IsAnswer(b) /\ b.name = a.name /\ b.code = a.code /\ b.told = t /\ b.ran = a.ran
               /\ b.web = a.web /\ b.warned = a.warned
  BY DEF IsAnswer

LEMMA OverWeb ==
    ASSUME NEW name, NEW code, NEW t
    PROVE  /\ LET a == [Answer(name, code) EXCEPT !.web = TRUE]
              IN  IsAnswer(a) /\ a.name = name /\ a.code = code /\ a.ran = {} /\ a.web /\ ~a.warned
           /\ LET a == [Answer(name, code) EXCEPT !.web = TRUE, !.told = t]
              IN  /\ IsAnswer(a) /\ a.name = name /\ a.code = code /\ a.ran = {} /\ a.told = t
                  /\ a.web /\ ~a.warned
  BY DEF Answer, IsAnswer

\* A word names a directory.
LEMMA SessionDir == ASSUME NEW w PROVE session_dir(w) \in Path
  <1>1. \E d \in Path : w \in DOMAIN PathOf => d = PathOf[w]
    BY CommandsAssumption
  <1> QED BY <1>1 DEF session_dir

-----------------------------------------------------------------------------
(* Commands that read.                                                     *)

\* `ckos history`, which opens the store and reads it.
LEMMA HistoryKeeps == ASSUME CommandsInv, NEW args, NEW f PROVE KeepsWord(cmd_history(args, f))
  <1>1. ASSUME NEW p PROVE KeepsWord(ShowHistory(p, session_dir(p.rest[1]), f))
    <2> DEFINE d == session_dir(p.rest[1])
               a == Answer("history", IF Opens(f) THEN 0 ELSE 1)
    <2>1. IsAnswer(a) /\ a.name = "history" /\ ~a.web /\ a.ran = {}
      BY AnswerIs
    <2>2. d \in Path
      BY SessionDir
    <2> HIDE DEF d, a
    <2>3. KeepsWord(On(d, a, Made(d, f), sessions[d]))
      BY <2>1, <2>2, ReadsKeep
    <2> QED BY <2>3, RefusedKeeps DEF ShowHistory, a, d
  <1> QED BY <1>1, DoneKeeps DEF cmd_history

\* `ckos search`, which reads the documents and the graph.
LEMMA SearchKeeps == ASSUME CommandsInv, NEW args, NEW f PROVE KeepsWord(cmd_search(args, f))
  <1>1. ASSUME NEW p PROVE KeepsWord(SearchSession(p, session_dir(p.rest[1]), f))
    <2> DEFINE d == session_dir(p.rest[1])
               a == [Answer("search", IF Opens(f) THEN 0 ELSE 1) EXCEPT !.warned = ~Loads(sessions[d], f)]
    <2>1. IsAnswer(a) /\ a.name = "search" /\ ~a.web /\ a.ran = {}
      <3> DEFINE w == ~Loads(sessions[d], f)
                 c == IF Opens(f) THEN 0 ELSE 1
      <3> HIDE DEF w, c
      <3>1. a = [Answer("search", c) EXCEPT !.warned = w]
        BY DEF w, c
      <3> HIDE DEF a
      <3> QED BY <3>1, AnswerIs, Warns
    <2>2. d \in Path
      BY SessionDir
    <2> HIDE DEF d, a
    <2>3. KeepsWord(On(d, a, Made(d, f), sessions[d]))
      BY <2>1, <2>2, ReadsKeep
    <2> QED BY <2>3, RefusedKeeps DEF SearchSession, a, d
  <1> QED BY <1>1, DoneKeeps DEF cmd_search

\* `ckos eval`, which reads the documents and the graph.
LEMMA EvalKeeps == ASSUME CommandsInv, NEW args, NEW f PROVE KeepsWord(cmd_eval(args, f))
  <1>1. ASSUME NEW p PROVE KeepsWord(EvalSession(p, session_dir(p.rest[1]), f))
    <2> DEFINE d == session_dir(p.rest[1])
               a == Answer("eval", IF Opens(f) /\ Loads(sessions[d], f) THEN 0 ELSE 1)
    <2>1. IsAnswer(a) /\ a.name = "eval" /\ ~a.web /\ a.ran = {}
      BY AnswerIs
    <2>2. d \in Path
      BY SessionDir
    <2> HIDE DEF d, a
    <2>3. KeepsWord(On(d, a, Made(d, f), sessions[d]))
      BY <2>1, <2>2, ReadsKeep
    <2> QED BY <2>3, RefusedKeeps DEF EvalSession, a, d
  <1> QED BY <1>1, DoneKeeps DEF cmd_eval

\* `ckos query`, which reads the graph.
LEMMA QueryKeeps == ASSUME CommandsInv, NEW args, NEW f PROVE KeepsWord(cmd_kql(args, f))
  <1>1. ASSUME NEW p PROVE KeepsWord(QuerySession(p, session_dir(p.value["--session"]), f))
    <2> DEFINE d == session_dir(p.value["--session"])
               a == Answer("kql", IF Loads(sessions[d], f) THEN 0 ELSE 1)
    <2>1. IsAnswer(a) /\ a.name = "kql" /\ ~a.web /\ a.ran = {}
      BY AnswerIs
    <2>2. d \in Path
      BY SessionDir
    <2> HIDE DEF d, a
    <2>3. KeepsWord(On(d, a, made, sessions[d]))
      BY <2>1, <2>2, ReadsKeep
    <2> QED BY <2>3, RefusedKeeps, DoneKeeps DEF QuerySession, a, d
  <1> QED BY <1>1, DoneKeeps DEF cmd_kql

-----------------------------------------------------------------------------
(* Commands that touch no session.                                         *)

LEMMA RangeOfOne == ASSUME NEW x PROVE Range(<<x>>) = {x}
  BY DEF Range

\* The policy of `ckos` grants to administrators alone.
LEMMA AllowedToAdmin ==
    ASSUME NEW id, NEW action, Allowed(id, action)
    PROVE  "admin" \in id.roles
  <1> DEFINE perms == [admin |-> {<<"text", "*">>, <<"capability", "*">>}]
             rule == [action |-> <<"capability", "medical">>, key |-> "region",
                      value |-> "restricted", deny |-> TRUE]
             req == request(id, action)
  <1>1. demo_policy.perms = perms /\ demo_policy.rules = <<rule>>
    BY DEF demo_policy
  <1>2. evaluate(perms, <<rule>>, req)
    BY <1>1 DEF Allowed
  <1>3. Range(<<rule>>) = {rule} /\ rule.deny
    <2>1. rule.deny
      OBVIOUS
    <2> HIDE DEF rule
    <2> QED BY <2>1, RangeOfOne
  <1>4. req.roles = id.roles /\ DOMAIN perms = {"admin"}
    BY DEF request
  <1> HIDE DEF perms, rule, req
  <1>5. rbac_allows(perms, req.roles, req.action)
    BY <1>2, <1>3 DEF evaluate
  <1> QED BY <1>4, <1>5 DEF rbac_allows

\* And not to the one of a restricted region what is medical.
LEMMA RestrictedFromMedical ==
    ~Allowed(demo_identity_provider["tok-admin-restricted"], <<"capability", "medical">>)
  <1> DEFINE id == demo_identity_provider["tok-admin-restricted"]
             action == <<"capability", "medical">>
             rule == [action |-> action, key |-> "region", value |-> "restricted", deny |-> TRUE]
  <1> SUFFICES ASSUME Allowed(id, action) PROVE FALSE
    OBVIOUS
  <1>1. demo_policy.rules = <<rule>>
    BY DEF demo_policy
  <1>2. id.attributes = [region |-> "restricted"]
    BY DEF demo_identity_provider, Identity
  <1>3. request(id, action).action = action /\ request(id, action).attributes = id.attributes
    BY DEF request
  <1>4. Range(<<rule>>) = {rule}
    <2> HIDE DEF rule
    <2> QED BY RangeOfOne
  <1>5. rule.deny /\ rule.action = action /\ rule.key = "region" /\ rule.value = "restricted"
    OBVIOUS
  <1> HIDE DEF id, action, rule
  <1>6. Applies(rule, request(id, action))
    BY <1>2, <1>3, <1>5 DEF Applies
  <1> QED BY <1>1, <1>4, <1>5, <1>6 DEF Allowed, evaluate

\* An administrator is one who says so, or has the token of one.
LEMMA AdminIsTold ==
    ASSUME NEW role, NEW token, resolve_identity(role, token) # None,
           "admin" \in resolve_identity(role, token).roles
    PROVE  \/ role = "admin" /\ token = None
           \/ role = None /\ token \in {"tok-admin-hq", "tok-admin-restricted"}
  <1>1. CASE role # None /\ token # None
    BY <1>1 DEF resolve_identity
  <1>2. CASE role # None /\ token = None
    BY <1>2 DEF resolve_identity, Identity
  <1>3. CASE role = None /\ token # None
    <2>1. token \in DOMAIN demo_identity_provider
          /\ resolve_identity(role, token) = demo_identity_provider[token]
      BY <1>3 DEF resolve_identity
    <2>2. CASE token = "tok-guest"
      <3>1. demo_identity_provider[token] = Identity("guest-user", "guest")
        BY <2>2 DEF demo_identity_provider
      <3> QED BY <2>1, <3>1 DEF Identity
    <2> QED BY <1>3, <2>1, <2>2 DEF demo_identity_provider
  <1>4. CASE role = None /\ token = None
    BY <1>4 DEF resolve_identity, Identity
  <1> QED BY <1>1, <1>2, <1>3, <1>4

\* `ckos plan`, `ckos verify`, `ckos serve`: nothing is written.
LEMMA PlanKeeps == ASSUME NEW args PROVE KeepsWord(cmd_plan(args))
  BY RefusedKeeps, DoneKeeps DEF cmd_plan

LEMMA VerifyKeeps == ASSUME NEW args PROVE KeepsWord(cmd_verify(args))
  BY RefusedKeeps, DoneKeeps DEF cmd_verify

LEMMA ServeKeeps == ASSUME NEW args, NEW f PROVE KeepsWord(cmd_serve(args, f))
  BY RefusedKeeps, DoneKeeps DEF cmd_serve

\* A workflow executes what is sensitive for those only whom the policy allows it.
LEMMA WorkflowKeeps == ASSUME NEW args, NEW f PROVE KeepsWord(cmd_workflow(args, f))
  <1>1. ASSUME NEW role, NEW token, NEW file \in DOMAIN Definition, NEW code,
               resolve_identity(role, token) # None, Definition[file] # None
        PROVE  KeepsWord(Effect([Answer("workflow", code) EXCEPT
                 !.told = <<role, token>>, !.by = resolve_identity(role, token),
                 !.ran = Executed(resolve_identity(role, token), Definition[file])]))
    <2> DEFINE id  == resolve_identity(role, token)
               ran == Executed(id, Definition[file])
               a   == [Answer("workflow", code) EXCEPT !.told = <<role, token>>, !.by = id, !.ran = ran]
    <2>1. a.dir = None /\ a.name = "workflow" /\ a.told = <<role, token>> /\ a.ran = ran
      BY DEF Answer
    <2>2. ASSUME NEW c \in ran, c \in SENSITIVE_CAPABILITIES
          PROVE  Allowed(id, <<"capability", c>>)
      <3> DEFINE caps == Definition[file]
                 denied == {i \in DOMAIN caps : /\ caps[i] \in SENSITIVE_CAPABILITIES
                                                /\ ~Allowed(id, <<"capability", caps[i]>>)}
      <3>1. DOMAIN caps \subseteq Int
        <4>1. caps \in Seq(Range(caps))
          BY <1>1, CommandsAssumption DEF IsList
        <4> HIDE DEF caps
        <4> QED BY <4>1
      <3>2. ran = {caps[i] : i \in {j \in DOMAIN caps : \A k \in denied : j < k}}
        BY DEF Executed
      <3> HIDE DEF caps, ran, id
      <3>3. PICK i \in DOMAIN caps : c = caps[i] /\ \A k \in denied : i < k
        BY <3>2
      <3>4. ~(i < i)
        BY <3>1
      <3> QED BY <2>2, <3>3, <3>4
    <2>3. ASSUME NEW c \in ran, c \in SENSITIVE_CAPABILITIES
          PROVE  \/ role = "admin" /\ token = None
                 \/ role = None /\ token \in {"tok-admin-hq", "tok-admin-restricted"}
      <3>1. "admin" \in id.roles
        BY <2>2, <2>3, AllowedToAdmin
      <3> QED BY <1>1, <3>1, AdminIsTold
    <2>4. Range(<<role, token>>) = {role, token}
      BY DEF Range
    <2>5. "medical" \in ran => "tok-admin-restricted" \notin {role, token}
      <3> SUFFICES ASSUME "medical" \in ran, "tok-admin-restricted" \in {role, token} PROVE FALSE
        OBVIOUS
      <3>1. "medical" \in SENSITIVE_CAPABILITIES
        BY DEF SENSITIVE_CAPABILITIES
      <3>2. Allowed(id, <<"capability", "medical">>)
        BY <2>2, <3>1
      <3>3. role = None /\ token = "tok-admin-restricted"
        <4> HIDE DEF ran, id
        <4> QED BY <2>3, <3>1, CommandsAssumption
      <3>4. id = demo_identity_provider["tok-admin-restricted"]
        BY <3>3, CommandsAssumption DEF resolve_identity, demo_identity_provider
      <3> QED BY <3>2, <3>4, RestrictedFromMedical
    <2> HIDE DEF a, id, ran
    <2>6. NoPrivilegeByDefault(a)
      BY <2>1, <2>3, <2>4, <2>5 DEF NoPrivilegeByDefault
    <2>7. KeepsWord(Effect(a))
      BY <2>1, <2>6, NothingHappens
    <2> QED BY <2>7 DEF a, id, ran
  <1>2. ASSUME NEW p, NEW file
        PROVE  KeepsWord(StartWorkflow(p, resolve_identity(p.value["--role"], p.value["--token"]), file, f))
    BY <1>1, RefusedKeeps DEF StartWorkflow
  <1> QED BY <1>2, DoneKeeps DEF cmd_workflow

\* `ckos tool`: what needs a privilege runs for who has it.
LEMMA ToolKeeps == ASSUME NEW args PROVE KeepsWord(cmd_tool(args))
  <1>1. ASSUME NEW p, NEW name
        PROVE  KeepsWord(InvokeTool(p, resolve_identity(p.value["--role"], p.value["--token"]), name))
    <2> DEFINE role  == p.value["--role"]
               token == p.value["--token"]
               id    == resolve_identity(role, token)
               needs == Range(demo_tools[name].permissions)
               granted == {g \in needs : Allowed(id, g)}
               ran   == granted = needs /\ invoke(demo_tools, granted, name) = "executed"
               a     == [Answer("tool", IF ran THEN 0 ELSE 1) EXCEPT
                           !.told = <<role, token>>, !.by = id,
                           !.ran = IF ran THEN {name} ELSE {}, !.audit = 1]
    <2> SUFFICES ASSUME id # None, name \in DOMAIN demo_tools
                 PROVE  KeepsWord(Effect(a))
      BY RefusedKeeps DEF InvokeTool
    <2>1. a.dir = None /\ a.told = <<role, token>> /\ a.ran = IF ran THEN {name} ELSE {}
      BY DEF Answer
    <2>2. name \in {"uppercase", "reverse"}
      BY DEF demo_tools
    <2>3. ASSUME ran, name = "reverse"
          PROVE  \/ role = "admin" /\ token = None
                 \/ role = None /\ token \in {"tok-admin-hq", "tok-admin-restricted"}
      <3>1. demo_tools[name].permissions = <<<<"text", "transform">>>>
        BY <2>3 DEF demo_tools
      <3>2. <<"text", "transform">> \in needs
        BY <3>1 DEF Range
      <3>3. Allowed(id, <<"text", "transform">>)
        BY <2>3, <3>2
      <3>4. "admin" \in id.roles
        BY <3>3, AllowedToAdmin
      <3> QED BY <3>4, AdminIsTold
    <2>4. Range(<<role, token>>) = {role, token}
      <3> HIDE DEF role, token
      <3> QED BY DEF Range
    <2> HIDE DEF a, role, token, id, needs, granted, ran
    <2>5. NoPrivilegeByDefault(a)
      <3>1. a.ran \cap SENSITIVE_CAPABILITIES = {} /\ "medical" \notin a.ran
        BY <2>1, <2>2 DEF SENSITIVE_CAPABILITIES
      <3> QED BY <2>1, <2>3, <2>4, <3>1 DEF NoPrivilegeByDefault
    <2> QED BY <2>1, <2>5, NothingHappens
  <1> QED BY <1>1, DoneKeeps DEF cmd_tool

-----------------------------------------------------------------------------
(* What is recorded and what is learnt.                                    *)

\* A list over a set is a list of its own elements.
LEMMA ListOf ==
    ASSUME NEW S, NEW u \in Seq(S)
    PROVE  IsList(u) /\ Range(u) \subseteq S
  <1>1. u = [i \in 1 .. Len(u) |-> u[i]] /\ Len(u) \in Nat
    OBVIOUS
  <1>2. \A i \in 1 .. Len(u) : u[i] \in Range(u) /\ u[i] \in S
    BY DEF Range
  <1>3. u \in Seq(Range(u))
    BY <1>1, <1>2
  <1> QED BY <1>1, <1>2, <1>3 DEF IsList, Range

\* A new document is one.
LEMMA DocumentIs ==
    ASSUME NEW kind \in Kinds, NEW source, NEW text
    PROVE  LET d == Document(kind, source, text)
           IN  /\ IsDocument(d) /\ d.kind = kind /\ d.source = source /\ d.text = text
               /\ ~d.cut
  BY DEF Document, IsDocument

\* Other documents, or a graph that was saved, leave a session a session.
LEMMA WithDocs ==
    ASSUME NEW s, IsSession(s), NEW docs, \A d \in docs : IsDocument(d)
    PROVE  LET t == [s EXCEPT !.docs = docs]
           IN  IsSession(t) /\ t.docs = docs /\ t.saved = s.saved /\ t.nodes = s.nodes /\ t.edges = s.edges
  BY DEF IsSession

LEMMA WithSaved ==
    ASSUME NEW s, IsSession(s)
    PROVE  LET t == [s EXCEPT !.saved = TRUE]
           IN  IsSession(t) /\ t.docs = s.docs /\ t.nodes = s.nodes /\ t.edges = s.edges
  BY DEF IsSession

\* A graph that learns keeps what it has and takes up the concepts of the texts.
LEMMA Learns ==
    ASSUME NEW g, DOMAIN g = {"docs", "saved", "nodes", "edges"}, NEW texts
    PROVE  LET h == learn(g, texts)
           IN  /\ DOMAIN h = DOMAIN g /\ h.docs = g.docs /\ h.saved = g.saved
               /\ g.nodes \subseteq h.nodes
               /\ \A t \in texts : Concepts(t) \subseteq h.nodes
  <1> DEFINE N == UNION {Concepts(t) : t \in texts}
             E == UNION {Relations(t) : t \in texts}
  <1>1. learn(g, texts) = [g EXCEPT !.nodes = @ \cup N, !.edges = @ \cup E]
    BY DEF learn
  <1>2. \A t \in texts : Concepts(t) \subseteq N
    OBVIOUS
  <1> HIDE DEF N, E
  <1> QED BY <1>1, <1>2

\* What is written of a list is a part of it.
LEMMA WrittenIsPart ==
    ASSUME NEW f, NEW docs, IsList(docs), NEW n
    PROVE  Range(Written(f, docs, n)) \subseteq Range(docs)
  <1>1. CASE Written(f, docs, n) = docs
    BY <1>1
  <1>2. CASE f # None /\ f.op = "write" /\ f.at - n \in DOMAIN docs
    <2> DEFINE k == f.at - n
    <2>1. Written(f, docs, n) = SubSeq(docs, 1, k - 1)
      BY <1>2 DEF Written
    <2>2. k \in 1 .. Len(docs) /\ docs \in Seq(Range(docs))
      BY <1>2 DEF IsList
    <2> HIDE DEF k
    <2> DEFINE R == Range(docs)
    <2>3. \A i \in 1 .. k - 1 : SubSeq(docs, 1, k - 1)[i] = docs[i] /\ i \in DOMAIN docs
      BY <2>2
    <2>4. DOMAIN SubSeq(docs, 1, k - 1) = 1 .. k - 1
      BY <2>2
    <2> QED BY <2>1, <2>3, <2>4 DEF Range
  <1> QED BY <1>1, <1>2 DEF Written

\* What a run records is documents.
LEMMA RecordsAre ==
    ASSUME NEW results, IsList(results)
    PROVE  IsList(record_run(results)) /\ \A d \in Range(record_run(results)) : IsDocument(d)
  <1> DEFINE ran  == [i \in DOMAIN results |-> Document("execution", None, results[i])]
             said == [i \in DOMAIN results |-> Document("reflection", None, <<<<"accepted">>>>)]
             S == Range(ran) \cup Range(said)
  <1>1. record_run(results) = ran \o said
    BY DEF record_run
  <1>2. PICK n \in Nat : DOMAIN results = 1 .. n
    BY DEF IsList
  <1>3. \A d \in S : IsDocument(d)
    <2>1. "execution" \in Kinds /\ "reflection" \in Kinds
      BY DEF Kinds
    <2> QED BY <2>1, DocumentIs DEF Range
  <1>4. DOMAIN ran = 1 .. n /\ DOMAIN said = 1 .. n
    BY <1>2
  <1>5. ran \in Seq(S) /\ said \in Seq(S)
    <2>1. \A i \in 1 .. n : ran[i] \in S /\ said[i] \in S
      <3> HIDE DEF ran, said
      <3> QED BY <1>4 DEF Range
    <2>2. ran = [i \in 1 .. n |-> ran[i]] /\ said = [i \in 1 .. n |-> said[i]]
      BY <1>2
    <2> HIDE DEF ran, said, S
    <2> QED BY <2>1, <2>2
  <1> HIDE DEF ran, said, S
  <1>6. ran \o said \in Seq(S)
    BY <1>5
  <1> DEFINE u == ran \o said
  <1>7. \A i \in DOMAIN u : u[i] \in S
    BY <1>6
  <1>8. u \in Seq(Range(u))
    BY <1>6, ListOf DEF IsList
  <1> HIDE DEF u
  <1> QED BY <1>1, <1>3, <1>7, <1>8 DEF u, IsList, Range

\* What `ckos run` and `/api/run` leave behind.
LEMMA GrowKeeps ==
    ASSUME CommandsInv, NEW d \in Path, NEW a, IsAnswer(a), a.ran = {}, a.web => IsPrefix(Root, d),
           a.name = "run", Succeeded(a), NEW f, NEW stored, IsSession(stored),
           DOMAIN sessions[d] = DOMAIN stored,
           sessions[d].docs \subseteq stored.docs, stored.saved = sessions[d].saved,
           stored.nodes = sessions[d].nodes, stored.edges = sessions[d].edges,
           NEW text, NEW whole \in BOOLEAN,
           text = <<a.told>> \o FlattenSeq(Plan(a.told)),
           whole => Range(record_run(Plan(a.told))) \subseteq stored.docs
    PROVE  KeepsWord(Grow(d, a, stored, text, whole, f))
  <1> DEFINE h     == learn(stored, {text})
             grown == update(stored, h, Made(d, f), d, f)
             w     == ~whole \/ grown = None
             b     == [a EXCEPT !.warned = w]
             after == IF grown = None THEN stored ELSE grown
             c     == [b EXCEPT !.dir = d]
             before == sessions[d]
  <1>1. Grow(d, a, stored, text, whole, f) = On(d, b, Made(d, f), after)
    BY DEF Grow
  <1>2. /\ DOMAIN h = {"docs", "saved", "nodes", "edges"} /\ h.docs = stored.docs
        /\ stored.nodes \subseteq h.nodes /\ Concepts(text) \subseteq h.nodes
    BY Learns DEF IsSession
  <1>3. \/ grown = None
        \/ grown = [h EXCEPT !.saved = TRUE]
    BY DEF update
  <1>4. IsAnswer(b) /\ b.name = "run" /\ b.code = a.code /\ b.told = a.told /\ b.ran = {}
        /\ b.web = a.web /\ b.warned = w
    <2> HIDE DEF w
    <2>1. /\ IsAnswer(b) /\ b.name = a.name /\ b.code = a.code /\ b.told = a.told /\ b.ran = a.ran
          /\ b.web = a.web /\ b.warned = w
      BY Warns
    <2> HIDE DEF b
    <2> QED BY <2>1
  <1>5. c.name = "run" /\ c.code = a.code /\ c.told = a.told /\ c.warned = w
    <2> HIDE DEF b, w
    <2> QED BY <1>4 DEF IsAnswer
  <1>6. /\ IsSession(after) /\ after.docs = stored.docs /\ stored.nodes \subseteq after.nodes
        /\ grown # None => Concepts(text) \subseteq after.nodes
    <2>1. CASE grown = None
      BY <2>1
    <2>2. CASE grown # None
      <3> DEFINE k == [h EXCEPT !.saved = TRUE]
      <3>1. k.saved = TRUE /\ k.docs = h.docs /\ k.nodes = h.nodes /\ DOMAIN k = DOMAIN h
        <4> HIDE DEF h
        <4> QED BY <1>2
      <3>2. after = k
        BY <1>3, <2>2
      <3> HIDE DEF after, k, h
      <3> QED BY <1>2, <3>1, <3>2 DEF IsSession
    <2> QED BY <2>1, <2>2
  <1> HIDE DEF b, after, grown, w, h, c
  <1>7. NothingLost(c, before, after)
    <2>1. before.nodes \ after.nodes = {} /\ before.docs \ after.docs = {}
      BY <1>6
    <2> HIDE DEF before
    <2> QED BY <2>1 DEF NothingLost
  <1>8. Succeeded(c)
    BY <1>5 DEF Succeeded
  <1>9. ~c.warned => SuccessIsComplete(c, before, after)
    <2> SUFFICES ASSUME ~c.warned PROVE SuccessIsComplete(c, before, after)
      OBVIOUS
    <2>1. whole /\ grown # None
      BY <1>5 DEF w
    <2> QED BY <1>5, <1>6, <2>1 DEF SuccessIsComplete
  <1>10. WordKept([b EXCEPT !.dir = d], sessions[d], after)
    BY <1>7, <1>8, <1>9 DEF WordKept, c
  <1> QED BY <1>1, <1>4, <1>6, <1>10, SomethingHappens

\* `Remember`, whatever part of the records is written.
LEMMA RememberKeeps ==
    ASSUME CommandsInv, NEW d \in Path, NEW a, IsAnswer(a), a.ran = {}, a.web => IsPrefix(Root, d),
           a.name = "run", Succeeded(a), NEW f, a.told \in Intents, NEW opened
    PROVE  KeepsWord(Remember(d, a, a.told, Plan(a.told), opened, f))
  <1> DEFINE all     == record_run(Plan(a.told))
             records == IF opened THEN Written(f, all, 0) ELSE <<>>
             docs    == sessions[d].docs \cup Range(records)
             stored  == [sessions[d] EXCEPT !.docs = docs]
             text    == <<a.told>> \o FlattenSeq(Plan(a.told))
             whole   == records = all
  <1>1. Remember(d, a, a.told, Plan(a.told), opened, f) = Grow(d, a, stored, text, whole, f)
    BY DEF Remember
  <1>2. IsList(all) /\ \A x \in Range(all) : IsDocument(x)
    BY RecordsAre, CommandsAssumption
  <1>3. Range(records) \subseteq Range(all)
    <2>1. CASE opened
      <3> HIDE DEF all
      <3> QED BY <1>2, <2>1, WrittenIsPart
    <2>2. CASE ~opened
      BY <2>2 DEF Range
    <2> QED BY <2>1, <2>2
  <1>4. IsSession(sessions[d])
    BY DEF CommandsInv
  <1>5. \A x \in docs : IsDocument(x)
    <2> HIDE DEF all, records
    <2> QED BY <1>2, <1>3, <1>4 DEF IsSession
  <1> HIDE DEF all, records, docs
  <1>6. /\ IsSession(stored) /\ stored.docs = docs /\ stored.saved = sessions[d].saved
        /\ stored.nodes = sessions[d].nodes /\ stored.edges = sessions[d].edges
    BY <1>4, <1>5, WithDocs
  <1>7. sessions[d].docs \subseteq docs /\ (records = all => Range(all) \subseteq docs)
    BY DEF docs
  <1> DEFINE full == whole
  <1> HIDE DEF stored, text
  <1>8. KeepsWord(Grow(d, a, stored, text, records = all, f))
    <2>1. DOMAIN sessions[d] = DOMAIN stored
      BY <1>4, <1>6 DEF IsSession
    <2>2. (records = all) \in BOOLEAN
      OBVIOUS
    <2>3. text = <<a.told>> \o FlattenSeq(Plan(a.told))
      BY DEF text
    <2>4. records = all => Range(record_run(Plan(a.told))) \subseteq stored.docs
      BY <1>6, <1>7 DEF all
    <2> DEFINE full2 == records = all
    <2>5. full2 \in BOOLEAN /\ (full2 => Range(record_run(Plan(a.told))) \subseteq stored.docs)
      BY <2>2, <2>4
    <2>6. sessions[d].docs \subseteq stored.docs
      BY <1>6, <1>7
    <2> HIDE DEF full2
    <2>7. KeepsWord(Grow(d, a, stored, text, full2, f))
      BY <1>6, <2>1, <2>3, <2>5, <2>6, GrowKeeps
    <2> QED BY <2>7 DEF full2
  <1> QED BY <1>1, <1>8

\* `ckos run`.
LEMMA RunKeeps ==
    ASSUME CommandsInv, NEW line \in Line, line # <<>>, NEW f
    PROVE  KeepsWord(cmd_run(Tail(line), f))
  <1>1. ASSUME NEW p, p.rest \in Intents
        PROVE  KeepsWord(RunIntent(p, p.rest, Plan(p.rest), f))
    <2> DEFINE a == [Answer("run", 0) EXCEPT !.told = p.rest]
               d == session_dir(p.value["--session"])
    <2>1. /\ IsAnswer(a) /\ a.name = "run" /\ a.code = 0 /\ a.told = p.rest /\ a.ran = {} /\ ~a.web
      BY AnswerIs, IsTold
    <2>2. d \in Path
      BY SessionDir
    <2> HIDE DEF a, d
    <2>3. KeepsWord(Remember(d, a, a.told, Plan(a.told), Opens(f), f))
      BY <1>1, <2>1, <2>2, RememberKeeps DEF Succeeded
    <2>4. KeepsWord(Remember(d, a, p.rest, Plan(p.rest), Opens(f), f))
      BY <2>1, <2>3
    <2> QED BY <2>4, RefusedKeeps, DoneKeeps DEF RunIntent, a, d
  <1>2. TakeAll(Tail(line), <<"--session", "--role", "--token">>).rest \in Intents
    BY DEF Intents
  <1> DEFINE p == TakeAll(Tail(line), <<"--session", "--role", "--token">>)
  <1>3. KeepsWord(RunIntent(p, p.rest, Plan(p.rest), f))
    <2> HIDE DEF p
    <2> QED BY <1>1, <1>2 DEF p
  <1> QED BY <1>3, DoneKeeps DEF cmd_run

-----------------------------------------------------------------------------
(* Loops.                                                                  *)

\* Every set of numbers has a least one.
LEMMA LeastNat ==
    ASSUME NEW T \in SUBSET Nat, T # {}
    PROVE  \E x \in T : \A y \in T : x <= y
  <1>1. PICK x \in T : \A y \in T : ~(<<y, x>> \in OpToRel(<, Nat))
    BY WFMin, NatLessThanWellFounded
  <1>2. \A y \in T : ~(y < x)
    BY <1>1 DEF OpToRel
  <1> QED BY <1>2

\* What holds of 0 and passes from each number to the next holds up to N.
LEMMA UpTo ==
    ASSUME NEW N \in Nat, NEW G, 0 \in G, \A n \in 1 .. N : n - 1 \in G => n \in G
    PROVE  0 .. N \subseteq G
  <1> DEFINE T == (0 .. N) \ G
  <1> SUFFICES ASSUME T # {} PROVE FALSE
    OBVIOUS
  <1>1. T \in SUBSET Nat
    OBVIOUS
  <1> HIDE DEF T
  <1>2. PICK n \in T : \A k \in T : n <= k
    BY <1>1, LeastNat
  <1>3. n \in 1 .. N /\ n \notin G
    BY <1>2 DEF T
  <1>4. n - 1 \notin T
    BY <1>2, <1>3
  <1>5. n - 1 \in G
    BY <1>3, <1>4 DEF T
  <1> QED BY <1>3, <1>5

\* One turn of each of the loops: of an argument's word, of a flag, of a file, of
\* a part of a name.
Turn(loop, c, a, x) ==
    CASE loop = "word" -> TakeWord(a, x, c)
      [] loop = "flag" -> TakeValue(a, x)
      [] loop = "file" -> IndexFile(a, x, c[1], c[2], c[3])
      [] loop = "part" -> AddPart(a, x)

\* f follows the loop for n turns.
Turns(f, loop, c, base, xs, n) ==
    f[0] = base /\ \A i \in 1 .. n : f[i] = Turn(loop, c, f[i - 1], xs[i])

\* Each of the loops is a function: there is one on every prefix.
LEMMA LoopExists ==
    ASSUME NEW loop, NEW c, NEW base, NEW xs, NEW N \in Nat
    PROVE  \E f : f = [n \in 0 .. N |-> IF n = 0 THEN base ELSE Turn(loop, c, f[n - 1], xs[n])]
  <1> DEFINE G == {n \in 0 .. N : \E f : Turns(f, loop, c, base, xs, n)}
  <1>1. 0 \in G
    <2>1. Turns([n \in {0} |-> base], loop, c, base, xs, 0)
      BY DEF Turns
    <2> QED BY <2>1
  <1>2. ASSUME NEW n \in 1 .. N, n - 1 \in G PROVE n \in G
    <2>1. PICK f : Turns(f, loop, c, base, xs, n - 1)
      BY <1>2
    <2> DEFINE g == [i \in 0 .. n |-> IF i = n THEN Turn(loop, c, f[n - 1], xs[n]) ELSE f[i]]
    <2>2. \A i \in 0 .. n - 1 : g[i] = f[i]
      OBVIOUS
    <2>3. g[n] = Turn(loop, c, f[n - 1], xs[n])
      OBVIOUS
    <2> HIDE DEF g
    <2>4. \A i \in 1 .. n : g[i] = Turn(loop, c, g[i - 1], xs[i])
      <3> TAKE i \in 1 .. n
      <3>1. i - 1 \in 0 .. n - 1 /\ g[i - 1] = f[i - 1]
        BY <2>2
      <3>2. CASE i = n
        BY <2>3, <3>1, <3>2
      <3>3. CASE i # n
        <4>1. i \in 1 .. (n - 1) /\ i \in 0 .. (n - 1)
          BY <3>3
        <4>2. f[i] = Turn(loop, c, f[i - 1], xs[i])
          BY <2>1, <4>1 DEF Turns
        <4> QED BY <2>2, <3>1, <4>1, <4>2
      <3> QED BY <3>2, <3>3
    <2>5. g[0] = base
      BY <2>1, <2>2 DEF Turns
    <2> QED BY <2>4, <2>5 DEF Turns
  <1> HIDE DEF G
  <1>3. N \in G
    BY <1>1, <1>2, UpTo
  <1>4. PICK f : Turns(f, loop, c, base, xs, N)
    BY <1>3 DEF G
  <1> DEFINE h == [n \in 0 .. N |-> f[n]]
  <1>5. h = [n \in 0 .. N |-> IF n = 0 THEN base ELSE Turn(loop, c, h[n - 1], xs[n])]
    <2>1. ASSUME NEW n \in 0 .. N
          PROVE  f[n] = IF n = 0 THEN base ELSE Turn(loop, c, h[n - 1], xs[n])
      <3>1. CASE n = 0
        BY <1>4, <3>1 DEF Turns
      <3>2. CASE n # 0
        <4>1. n \in 1 .. N /\ n - 1 \in 0 .. N
          BY <3>2
        <4>2. h[n - 1] = f[n - 1]
          BY <4>1
        <4>3. f[n] = Turn(loop, c, f[n - 1], xs[n])
          BY <1>4, <4>1 DEF Turns
        <4> QED BY <3>2, <4>2, <4>3
      <3> QED BY <3>1, <3>2
    <2> QED BY <2>1
  <1> QED BY <1>5

\* What a loop written as a function on 0 .. N computes.
LEMMA LoopUnfolds ==
    ASSUME NEW loop, NEW c, NEW base, NEW xs, NEW N \in Nat, NEW f,
           f = CHOOSE g : g = [n \in 0 .. N |-> IF n = 0 THEN base ELSE Turn(loop, c, g[n - 1], xs[n])]
    PROVE  Turns(f, loop, c, base, xs, N)
  <1>1. f = [n \in 0 .. N |-> IF n = 0 THEN base ELSE Turn(loop, c, f[n - 1], xs[n])]
    BY LoopExists
  <1>2. f[0] = base
    BY <1>1
  <1>3. \A i \in 1 .. N : f[i] = Turn(loop, c, f[i - 1], xs[i])
    <2> TAKE i \in 1 .. N
    <2>1. i \in 0 .. N /\ i # 0
      OBVIOUS
    <2> QED BY <1>1, <2>1
  <1> QED BY <1>2, <1>3 DEF Turns

\* A name that is not rejected names a directory under the root.
LEMMA UnderRoot ==
    ASSUME NEW name, IsList(name), resolve_session(name) # None
    PROVE  IsPrefix(Root, resolve_session(name))
  <1> DEFINE N == Len(name)
             S == Range(name)
             f == CHOOSE g : g = [n \in 0 .. N |-> IF n = 0 THEN <<>> ELSE AddPart(g[n - 1], name[n])]
             h == CHOOSE g : g = [n \in 0 .. N |-> IF n = 0 THEN <<>> ELSE Turn("part", None, g[n - 1], name[n])]
             G == {n \in 0 .. N : f[n] \in Seq(S)}
  <1>1. N \in Nat /\ \A i \in 1 .. N : name[i] \in S
    BY DEF IsList
  <1>2. resolve_session(name) = Root \o f[N]
    BY DEF resolve_session
  <1>3. f = h
    BY DEF Turn
  <1> HIDE DEF f, N, S
  <1>4. Turns(f, "part", None, <<>>, name, N)
    BY <1>1, <1>3, LoopUnfolds
  <1>5. 0 \in G
    <2>1. f[0] = <<>>
      BY <1>4 DEF Turns
    <2>2. 0 \in 0 .. N /\ <<>> \in Seq(S)
      BY <1>1
    <2> QED BY <2>1, <2>2
  <1>6. ASSUME NEW n \in 1 .. N, n - 1 \in G PROVE n \in G
    <2>1. f[n] = AddPart(f[n - 1], name[n])
      BY <1>4 DEF Turns, Turn
    <2>2. f[n - 1] \in Seq(S) /\ name[n] \in S /\ n \in 0 .. N
      BY <1>1, <1>6
    <2>3. f[n] \in Seq(S)
      BY <2>1, <2>2 DEF AddPart
    <2> QED BY <2>2, <2>3
  <1>7. N \in G
    <2> HIDE DEF G
    <2>1. 0 .. N \subseteq G
      BY <1>1, <1>5, <1>6, UpTo
    <2> QED BY <1>1, <2>1
  <1>8. f[N] \in Seq(S)
    BY <1>7
  <1> DEFINE R == Range(Root)
  <1>9. Root \in Seq(R)
    BY CommandsAssumption DEF IsList
  <1> DEFINE T == R \cup S
             p == f[N]
  <1>10. Root \in Seq(T) /\ p \in Seq(T)
    BY <1>8, <1>9
  <1> HIDE DEF R, T, p, G
  <1>11. Root \o p \in Seq(T) /\ Len(Root \o p) = Len(Root) + Len(p)
         /\ \A i \in 1 .. Len(Root) : (Root \o p)[i] = Root[i]
    BY <1>10, ConcatProperties
  <1>12. Len(Root) \in Nat /\ Len(p) \in Nat
    BY <1>10
  <1>13. SubSeq(Root, 1, Len(Root)) = SubSeq(Root \o p, 1, Len(Root))
    BY <1>10, <1>11, <1>12
  <1>14. IsPrefix(Root, Root \o p)
    BY <1>11, <1>12, <1>13 DEF IsPrefix
  <1> QED BY <1>2, <1>14 DEF p

\* The directory a request names is under the root.
LEMMA SessionOfRequest ==
    ASSUME NEW req \in Request, required_session(req) # None
    PROVE  required_session(req) \in Path /\ IsPrefix(Root, required_session(req))
  <1>1. HasSession(req) /\ required_session(req) = resolve_session(req.params["session"])
    BY DEF required_session
  <1>2. "session" \in DOMAIN req.params
    <2> SUFFICES ASSUME "session" \notin DOMAIN req.params PROVE FALSE
      OBVIOUS
    <2>1. param_or_empty(req, "session") = <<>>
      BY DEF param_or_empty, param
    <2> QED BY <1>1, <2>1 DEF HasSession
  <1>3. IsList(req.params["session"])
    BY <1>2, CommandsAssumption
  <1> QED BY <1>1, <1>3, UnderRoot, CommandsAssumption

-----------------------------------------------------------------------------
(* The gateway.                                                            *)

\* `POST /api/run`.
LEMMA WebRunKeeps ==
    ASSUME CommandsInv, NEW req \in Request, NEW f
    PROVE  KeepsWord(run(req, f))
  <1> DEFINE intent == param_or_empty(req, "intent")
             d == required_session(req)
             a == [Answer("run", 200) EXCEPT !.web = TRUE, !.told = intent]
  <1>1. intent \in Intents
    BY DEF Intents
  <1>2. IsAnswer(a) /\ a.name = "run" /\ a.code = 200 /\ a.told = intent /\ a.ran = {} /\ a.web
    <2> HIDE DEF intent
    <2> QED BY DEF Answer, IsAnswer
  <1>3. ASSUME HasSession(req), ~Rejects(req)
        PROVE  /\ KeepsWord(On(d, [a EXCEPT !.warned = TRUE], Made(d, f), sessions[d]))
               /\ KeepsWord(Remember(d, a, intent, Plan(intent), TRUE, f))
    <2>1. d # None
      BY <1>3 DEF Rejects
    <2>2. d \in Path /\ IsPrefix(Root, d)
      <3> HIDE DEF d
      <3> QED BY <2>1, SessionOfRequest DEF d
    <2> HIDE DEF intent, a, d
    <2> DEFINE b == [a EXCEPT !.warned = TRUE]
    <2>3. IsAnswer(b) /\ b.ran = {} /\ b.warned
      BY <1>2 DEF IsAnswer
    <2> HIDE DEF b
    <2>4. KeepsWord(On(d, b, Made(d, f), sessions[d]))
      <3>1. Made(d, f) \in {made, Made(d, f)}
        OBVIOUS
      <3> QED BY <2>2, <2>3, <3>1, ReadsKeep, Zenon
    <2>5. KeepsWord(Remember(d, a, a.told, Plan(a.told), TRUE, f))
      <3>1. IsAnswer(a) /\ a.ran = {} /\ a.name = "run" /\ Succeeded(a) /\ a.told \in Intents
        BY <1>1, <1>2 DEF Succeeded
      <3>2. d \in Path /\ (a.web => IsPrefix(Root, d))
        BY <2>2
      <3> QED BY <3>1, <3>2, RememberKeeps, Zenon
    <2>6. KeepsWord(Remember(d, a, intent, Plan(intent), TRUE, f))
      BY <1>2, <2>5
    <2> QED BY <2>4, <2>6 DEF b
  <1>4. KeepsWord(Responds("run", 200)) /\ KeepsWord(Responds("run", 400)) /\ KeepsWord(Responds("run", 500))
    BY RespondsKeeps
  <1> DEFINE warned == On(d, [a EXCEPT !.warned = TRUE], Made(d, f), sessions[d])
             kept == Remember(d, a, intent, Plan(intent), TRUE, f)
  <1>5. run(req, f) = IF intent = <<>> \/ Rejects(req) THEN Responds("run", 400)
                      ELSE IF ~Verified(Plan(intent)) THEN Responds("run", 500)
                      ELSE IF ~HasSession(req) THEN Responds("run", 200)
                      ELSE IF ~Opens(f) THEN warned
                      ELSE kept
    BY Zenon DEF run
  <1>6. HasSession(req) /\ ~Rejects(req) => KeepsWord(warned) /\ KeepsWord(kept)
    BY <1>3
  <1> HIDE DEF intent, a, d, warned, kept
  <1>7. \/ run(req, f) \in {Responds("run", 200), Responds("run", 400), Responds("run", 500)}
        \/ HasSession(req) /\ ~Rejects(req) /\ run(req, f) \in {warned, kept}
    BY ONLY <1>5
  <1> QED BY <1>4, <1>6, <1>7

\* A request that reads the session it names.
LEMMA RequestReads ==
    ASSUME CommandsInv, NEW req \in Request, required_session(req) # None, NEW name, NEW code,
           name \notin {"run", "index", "gc"}, NEW f
    PROVE  LET d == required_session(req)
               a == [Answer(name, code) EXCEPT !.web = TRUE]
           IN  /\ KeepsWord(On(d, a, Made(d, f), sessions[d]))
               /\ KeepsWord(On(d, a, made, sessions[d]))
  <1> DEFINE d == required_session(req)
             a == [Answer(name, code) EXCEPT !.web = TRUE]
  <1>1. IsAnswer(a) /\ a.name = name /\ a.ran = {} /\ a.web
    BY DEF Answer, IsAnswer
  <1>2. d \in Path /\ IsPrefix(Root, d)
    <2> HIDE DEF d
    <2> QED BY SessionOfRequest DEF d
  <1> HIDE DEF a, d
  <1>3. Made(d, f) \in {made, Made(d, f)} /\ made \in {made, Made(d, f)}
    OBVIOUS
  <1>4. a.name \notin {"run", "index", "gc"} /\ (a.name = "graph" => a.web)
    BY <1>1
  <1>5. KeepsWord(On(d, a, Made(d, f), sessions[d])) /\ KeepsWord(On(d, a, made, sessions[d]))
    <2>1. d \in Path /\ IsAnswer(a) /\ a.ran = {} /\ (a.web => IsPrefix(Root, d))
      BY <1>1, <1>2
    <2>2. KeepsWord(On(d, a, Made(d, f), sessions[d]))
      BY <2>1, <1>3, <1>4, ReadsKeep, Zenon
    <2>3. KeepsWord(On(d, a, made, sessions[d]))
      BY <2>1, <1>3, <1>4, ReadsKeep, Zenon
    <2> QED BY <2>2, <2>3
  <1> QED BY <1>5 DEF a, d

\* Every route.
LEMMA RouteKeeps ==
    ASSUME CommandsInv, NEW req \in Request, NEW f
    PROVE  KeepsWord(route(req, f))
  <1>1. KeepsWord(web_plan(req))
    BY RespondsKeeps DEF web_plan
  <1>2. KeepsWord(verify(req))
    BY RespondsKeeps DEF verify
  <1>3. KeepsWord(history(req, f))
    <2>1. CASE required_session(req) = None
      BY <2>1, RespondsKeeps DEF history
    <2>2. CASE required_session(req) # None
      <3>1. \A code : KeepsWord(On(required_session(req), [Answer("history", code) EXCEPT !.web = TRUE],
                                   Made(required_session(req), f), sessions[required_session(req)]))
        BY <2>2, RequestReads
      <3> QED BY <2>2, <3>1 DEF history
    <2> QED BY <2>1, <2>2
  <1>4. KeepsWord(search(req, f))
    <2>1. CASE required_session(req) = None
      BY <2>1, RespondsKeeps DEF search
    <2>2. CASE required_session(req) # None
      <3>1. \A code : KeepsWord(On(required_session(req), [Answer("search", code) EXCEPT !.web = TRUE],
                                   Made(required_session(req), f), sessions[required_session(req)]))
        BY <2>2, RequestReads
      <3> QED BY <2>2, <3>1, RespondsKeeps DEF search
    <2> QED BY <2>1, <2>2
  <1>5. ASSUME NEW name \in {"kql", "graph"}, HasSession(req), ~Rejects(req)
        PROVE  KeepsWord(ReadsGraph(name, required_session(req), f))
    <2>1. required_session(req) # None
      BY <1>5 DEF Rejects
    <2>2. \A code : KeepsWord(On(required_session(req), [Answer(name, code) EXCEPT !.web = TRUE],
                                 made, sessions[required_session(req)]))
      BY <2>1, RequestReads
    <2> QED BY <2>2 DEF ReadsGraph
  <1>6. KeepsWord(kql(req, f)) /\ KeepsWord(graph(req, f))
    BY <1>5, RespondsKeeps DEF kql, graph
  <1>7. KeepsWord(run(req, f))
    BY WebRunKeeps
  <1> QED BY <1>1, <1>2, <1>3, <1>4, <1>6, <1>7, RespondsKeeps DEF route

-----------------------------------------------------------------------------
(* `ckos graph`.                                                           *)

\* `ckos graph`, of the session's documents all at once.
LEMMA GraphSessionKeeps ==
    ASSUME CommandsInv, NEW d \in Path, NEW f
    PROVE  KeepsWord(GraphSession(d, sessions[d], f))
  <1> DEFINE s      == sessions[d]
             loaded == IF Loads(s, f) THEN s ELSE [s EXCEPT !.nodes = {}, !.edges = {}]
             texts  == {doc.text : doc \in s.docs}
             grown  == learn(loaded, texts)
             w      == ~Loads(s, f) \/ Fails(f, "save")
             a      == [Answer("graph", 0) EXCEPT !.warned = w]
             b      == [a EXCEPT !.code = 1]
             k      == [grown EXCEPT !.saved = TRUE]
  <1>1. IsSession(s)
    BY DEF CommandsInv
  <1>2. IsAnswer(a) /\ a.name = "graph" /\ a.code = 0 /\ a.ran = {} /\ ~a.web /\ a.warned = w
    <2> HIDE DEF w
    <2> QED BY AnswerIs, Warns
  <1>3. IsAnswer(b) /\ b.code = 1 /\ b.ran = {} /\ ~b.web
    <2> HIDE DEF a
    <2> QED BY <1>2, Ends
  <1>4. KeepsWord(On(d, b, Made(d, f), s))
    <2> HIDE DEF b
    <2> QED BY <1>3, ReadsKeep DEF Succeeded
  <1>5. /\ DOMAIN loaded = {"docs", "saved", "nodes", "edges"} /\ loaded.docs = s.docs
        /\ loaded.saved = s.saved /\ (Loads(s, f) => loaded.nodes = s.nodes)
    <2> HIDE DEF s
    <2> QED BY <1>1 DEF IsSession
  <1>6. /\ DOMAIN grown = {"docs", "saved", "nodes", "edges"} /\ grown.docs = s.docs
        /\ loaded.nodes \subseteq grown.nodes /\ \A t \in texts : Concepts(t) \subseteq grown.nodes
    <2> HIDE DEF loaded, texts, s
    <2> QED BY <1>5, Learns
  <1>7. /\ IsSession(k) /\ k.docs = s.docs /\ k.nodes = grown.nodes
    <2> HIDE DEF grown, s
    <2> QED BY <1>1, <1>6 DEF IsSession
  <1> DEFINE c == [a EXCEPT !.dir = d]
  <1>8. c.name = "graph" /\ c.code = 0 /\ c.warned = w /\ ~c.web
    <2> HIDE DEF a, w
    <2> QED BY <1>2 DEF IsAnswer
  <1>9. ASSUME Fails(f, "save")
        PROVE  KeepsWord(On(d, a, Made(d, f), s))
    <2>1. a.warned
      BY <1>2, <1>9
    <2> HIDE DEF a, w, s
    <2> QED BY <1>2, <2>1, ReadsKeep DEF s
  <1>10. WordKept(c, s, k)
    <2>1. NothingLost(c, s, k)
      <3>1. s.docs \ k.docs = {}
        BY <1>7
      <3>2. s.nodes \ k.nodes # {} => c.warned
        <4> SUFFICES ASSUME ~c.warned PROVE s.nodes \subseteq k.nodes
          OBVIOUS
        <4>1. Loads(s, f)
          BY <1>8
        <4> HIDE DEF s, k, loaded, grown, c
        <4> QED BY <1>5, <1>6, <1>7, <4>1
      <3> HIDE DEF s, k, c
      <3> QED BY <1>8, <3>1, <3>2 DEF NothingLost
    <2>2. SuccessIsComplete(c, s, k)
      <3>1. \A x \in k.docs : Concepts(x.text) \subseteq k.nodes
        <4> HIDE DEF s, k, grown
        <4> QED BY <1>6, <1>7
      <3> HIDE DEF s, k, c
      <3> QED BY <1>8, <3>1 DEF SuccessIsComplete
    <2>3. Succeeded(c)
      BY <1>8 DEF Succeeded
    <2> HIDE DEF s, k, c
    <2> QED BY <2>1, <2>2, <2>3 DEF WordKept
  <1>11. KeepsWord(On(d, a, Made(d, f), k))
    <2> HIDE DEF a, k
    <2> QED BY <1>2, <1>7, <1>10, SomethingHappens
  <1> HIDE DEF a, b
  <1> QED BY <1>4, <1>9, <1>11 DEF GraphSession, a, b

LEMMA GraphKeeps == ASSUME CommandsInv, NEW args, NEW f PROVE KeepsWord(cmd_graph(args, f))
  <1>1. \A w : KeepsWord(GraphSession(session_dir(w), sessions[session_dir(w)], f))
    BY SessionDir, GraphSessionKeeps
  <1> QED BY <1>1, RefusedKeeps, DoneKeeps DEF cmd_graph

-----------------------------------------------------------------------------
(* `ckos gc`.                                                              *)

\* What a collection has made of the documents: one is gone for its confidence,
\* or replaced by its shorter version.
Collected(before, docs, least) ==
    /\ \A x \in docs : IsDocument(x)
    /\ \A x \in before \ docs :
         \/ Confidence[x.kind] < least
         \/ \E e \in docs : e.cut /\ e.kind = x.kind /\ e.source = x.source

\* Both loops of `collect` keep what Collected says.
LEMMA ShortenCollects ==
    ASSUME NEW docs, \A x \in docs : IsDocument(x), NEW todo \in SUBSET docs, NEW n, NEW least, NEW f
    PROVE  /\ Collected(docs, ShortenAll(docs, todo, n, f).docs, least)
           /\ ShortenAll(docs, todo, n, f).ok \in BOOLEAN
  <1> DEFINE cut  == Reached(f, "write", todo, 0)
             now  == (docs \ cut) \cup {compress_document(x, n) : x \in cut}
  <1>1. cut \subseteq todo
    BY DEF Reached
  <1>2. ASSUME NEW x \in docs
        PROVE  LET e == compress_document(x, n)
               IN  IsDocument(e) /\ e.cut /\ e.kind = x.kind /\ e.source = x.source
    BY DEF compress_document, IsDocument
  <1>3. ShortenAll(docs, todo, n, f).docs = now /\ ShortenAll(docs, todo, n, f).ok \in BOOLEAN
    BY DEF ShortenAll
  <1> HIDE DEF cut
  <1>4. \A x \in now : IsDocument(x)
    BY <1>1, <1>2
  <1>5. \A x \in docs \ now : \E e \in now : e.cut /\ e.kind = x.kind /\ e.source = x.source
    <2> TAKE x \in docs \ now
    <2>1. x \in cut /\ compress_document(x, n) \in now
      OBVIOUS
    <2> HIDE DEF now
    <2> QED BY <1>2, <2>1
  <1> HIDE DEF now
  <1> QED BY <1>3, <1>4, <1>5 DEF Collected

LEMMA DropCollects ==
    ASSUME NEW before, NEW docs, NEW least, Collected(before, docs, least), NEW f, least \in Nat
    PROVE  LET st == DropPoor(docs, {x \in docs : Confidence[x.kind] < least}, f)
           IN  /\ Collected(before, st.docs, least)
               /\ st.ok => \A x \in st.docs : Confidence[x.kind] >= least
  <1> DEFINE todo == {x \in docs : Confidence[x.kind] < least}
             gone == Reached(f, "delete", todo, 0)
             st   == DropPoor(docs, todo, f)
  <1>1. gone \subseteq todo
    BY DEF Reached
  <1>2. st.docs = docs \ gone /\ (st.ok <=> gone = todo)
    BY DEF DropPoor
  <1> HIDE DEF gone, st
  <1>3. ASSUME NEW x \in before \ (docs \ gone)
        PROVE  \/ Confidence[x.kind] < least
               \/ \E e \in docs \ gone : e.cut /\ e.kind = x.kind /\ e.source = x.source
    <2>1. CASE x \in docs
      BY <1>1, <1>3, <2>1
    <2>2. CASE x \notin docs
      <3>1. CASE Confidence[x.kind] < least
        BY <3>1
      <3>2. CASE \E e \in docs : e.cut /\ e.kind = x.kind /\ e.source = x.source
        <4>1. PICK e \in docs : e.cut /\ e.kind = x.kind /\ e.source = x.source
          BY <3>2
        <4>2. CASE e \in gone
          BY <1>1, <4>1, <4>2
        <4> QED BY <4>1, <4>2
      <3> QED BY <1>3, <2>2, <3>1, <3>2 DEF Collected
    <2> QED BY <2>1, <2>2
  <1>4. Collected(before, st.docs, least)
    BY <1>2, <1>3 DEF Collected
  <1>5. ASSUME st.ok, NEW x \in st.docs PROVE Confidence[x.kind] >= least
    <2>1. x \in docs /\ ~(Confidence[x.kind] < least)
      BY <1>2, <1>5
    <2>2. x.kind \in Kinds
      BY <2>1 DEF Collected, IsDocument
    <2>3. Confidence[x.kind] \in Nat
      BY <2>2 DEF Confidence, Kinds
    <2> QED BY <2>1, <2>3
  <1> QED BY <1>4, <1>5 DEF st

\* Two sessions that differ in their documents at most.
LEMMA SameButDocs ==
    ASSUME NEW s, IsSession(s), NEW t, IsSession(t),
           t.saved = s.saved, t.nodes = s.nodes, t.edges = s.edges
    PROVE  [t EXCEPT !.docs = {}] = [s EXCEPT !.docs = {}]
  <1> DEFINE u == [t EXCEPT !.docs = {}]
             v == [s EXCEPT !.docs = {}]
  <1>1. \A x \in {"docs", "saved", "nodes", "edges"} : u[x] = v[x]
    BY DEF IsSession
  <1>2. u = [x \in DOMAIN t |-> u[x]] /\ v = [x \in DOMAIN s |-> v[x]]
    OBVIOUS
  <1>3. DOMAIN t = {"docs", "saved", "nodes", "edges"} /\ DOMAIN s = DOMAIN t
    BY DEF IsSession
  <1> HIDE DEF u, v
  <1>4. u = v
    BY <1>1, <1>2, <1>3
  <1> QED BY <1>4 DEF u, v

\* The end of a collection: the session is t, but for the documents the one
\* before or, after a success, without its orphans.
LEMMA GcEnds ==
    ASSUME CommandsInv, NEW d \in Path, NEW f, NEW least, NEW a, IsAnswer(a), a.name = "gc",
           a.told = <<least>>, a.ran = {}, ~a.web, NEW t, IsSession(t),
           Collected(sessions[d].docs, t.docs, least),
           t.edges = sessions[d].edges,
           \/ a.code = 1 /\ t.saved = sessions[d].saved /\ t.nodes = sessions[d].nodes
           \/ /\ a.code = 0
              /\ \A x \in t.docs : Confidence[x.kind] >= least
              /\ t.nodes = {n \in sessions[d].nodes : \E e \in t.edges : n \in {e[1], e[2]}}
    PROVE  KeepsWord(On(d, a, Made(d, f), t))
  <1> DEFINE c == [a EXCEPT !.dir = d]
             s == sessions[d]
  <1>1. c.name = "gc" /\ c.code = a.code /\ c.told = <<least>> /\ c.told[1] = least
    BY DEF IsAnswer
  <1>2. IsSession(s)
    BY DEF CommandsInv
  <1> HIDE DEF c, s
  <1>3. NothingLost(c, s, t)
    <2>1. s.nodes \ t.nodes # {} =>
             \A n \in s.nodes \ t.nodes : \A e \in s.edges : n \notin {e[1], e[2]}
      BY DEF s
    <2>2. \A x \in s.docs \ t.docs :
            \/ Confidence[x.kind] < least
            \/ \E e \in t.docs : e.cut /\ e.kind = x.kind /\ e.source = x.source
      BY DEF Collected, s
    <2> QED BY <1>1, <2>1, <2>2 DEF NothingLost
  <1>4. ~Succeeded(c) => FailureIsHarmless(c, s, t)
    <2> SUFFICES ASSUME ~Succeeded(c) PROVE FailureIsHarmless(c, s, t)
      OBVIOUS
    <2>1. t.saved = s.saved /\ t.nodes = s.nodes /\ t.edges = s.edges
      BY <1>1 DEF Succeeded, s
    <2>2. [t EXCEPT !.docs = {}] = [s EXCEPT !.docs = {}]
      BY <1>2, <2>1, SameButDocs
    <2> QED BY <1>1, <2>2 DEF FailureIsHarmless
  <1>5. Succeeded(c) => SuccessIsComplete(c, s, t)
    BY <1>1 DEF Succeeded, SuccessIsComplete
  <1>6. WordKept([a EXCEPT !.dir = d], sessions[d], t)
    BY <1>3, <1>4, <1>5 DEF WordKept, c, s
  <1> QED BY <1>6, SomethingHappens

\* `ckos gc`, whatever deletions and compressions fail.
LEMMA CollectGarbageKeeps ==
    ASSUME CommandsInv, NEW d \in Path, NEW f, NEW least \in Nat, NEW length
    PROVE  KeepsWord(CollectGarbage(d, sessions[d], least, length, f))
  <1> DEFINE s    == sessions[d]
             long == {x \in s.docs : length # None /\ ~x.cut /\ Len(Words(x.text)) > length}
             st   == ShortenAll(s.docs, long, length, f)
             end  == IF st.ok THEN DropPoor(st.docs, {x \in st.docs : Confidence[x.kind] < least}, f) ELSE st
             left == [s EXCEPT !.docs = end.docs]
             swept == IF s.saved THEN update(left, remove_orphans(left), Made(d, f), d, f) ELSE left
             a    == [Answer("gc", 1) EXCEPT !.told = <<least>>]
             b    == [Answer("gc", 0) EXCEPT !.told = <<least>>]
  <1>1. IsSession(s)
    BY DEF CommandsInv
  <1>2. Collected(s.docs, st.docs, least) /\ st.ok \in BOOLEAN
    <2>1. \A x \in s.docs : IsDocument(x)
      BY <1>1 DEF IsSession
    <2> DEFINE docs == s.docs
    <2>2. long \in SUBSET docs
      OBVIOUS
    <2> HIDE DEF long, docs
    <2>3. \A x \in docs : IsDocument(x)
      BY <2>1 DEF docs
    <2>4. /\ Collected(docs, ShortenAll(docs, long, length, f).docs, least)
          /\ ShortenAll(docs, long, length, f).ok \in BOOLEAN
      BY <2>2, <2>3, ShortenCollects
    <2> QED BY <2>4 DEF docs
  <1> HIDE DEF st
  <1>3. /\ Collected(s.docs, end.docs, least)
        /\ st.ok /\ end.ok => \A x \in end.docs : Confidence[x.kind] >= least
        /\ end.ok => st.ok
    <2>1. CASE st.ok
      <3> DEFINE drop == DropPoor(st.docs, {x \in st.docs : Confidence[x.kind] < least}, f)
                 docs == s.docs
                 now  == st.docs
      <3>1. end = drop
        BY <2>1
      <3>2. Collected(docs, now, least)
        BY <1>2
      <3>3. /\ Collected(docs, drop.docs, least)
            /\ drop.ok => \A x \in drop.docs : Confidence[x.kind] >= least
        <4> HIDE DEF docs, now
        <4>1. LET e == DropPoor(now, {x \in now : Confidence[x.kind] < least}, f)
              IN  /\ Collected(docs, e.docs, least)
                  /\ e.ok => \A x \in e.docs : Confidence[x.kind] >= least
          BY <3>2, DropCollects
        <4> QED BY <4>1 DEF now
      <3> HIDE DEF drop, end
      <3> QED BY <2>1, <3>1, <3>3
    <2>2. CASE ~st.ok
      BY <1>2, <2>2
    <2> QED BY <2>1, <2>2
  <1> HIDE DEF end
  <1>4. \A x \in end.docs : IsDocument(x)
    BY <1>3 DEF Collected
  <1>5. IsSession(left) /\ left.docs = end.docs /\ left.saved = s.saved /\ left.nodes = s.nodes
        /\ left.edges = s.edges
    <2> HIDE DEF s
    <2> QED BY <1>1, <1>4, WithDocs
  <1>6. /\ IsAnswer(a) /\ a.name = "gc" /\ a.code = 1 /\ a.told = <<least>> /\ a.ran = {} /\ ~a.web
        /\ IsAnswer(b) /\ b.name = "gc" /\ b.code = 0 /\ b.told = <<least>> /\ b.ran = {} /\ ~b.web
    <2>1. ASSUME NEW code
          PROVE  LET x == [Answer("gc", code) EXCEPT !.told = <<least>>]
                 IN  IsAnswer(x) /\ x.name = "gc" /\ x.code = code /\ x.told = <<least>> /\ x.ran = {} /\ ~x.web
      BY DEF Answer, IsAnswer
    <2> QED BY <2>1
  <1> HIDE DEF a, b
  <1>7. KeepsWord(On(d, a, Made(d, f), left))
    <2> HIDE DEF left
    <2> QED BY <1>3, <1>5, <1>6, GcEnds DEF s
  <1>8. KeepsWord(On(d, a, Made(d, f), s))
    <2>1. ~Succeeded(a)
      BY <1>6 DEF Succeeded
    <2> QED BY <1>6, <2>1, ReadsKeep
  <1>9. ASSUME st.ok, end.ok, swept # None
        PROVE  KeepsWord(On(d, b, Made(d, f), swept))
    <2> DEFINE left2 == left
               kept == {n \in left.nodes : \E e \in left.edges : n \in {e[1], e[2]}}
    <2>1. CASE s.saved
      <3>1. swept = [remove_orphans(left) EXCEPT !.saved = TRUE]
        BY <1>9, <2>1 DEF update
      <3>2. remove_orphans(left) = [left EXCEPT !.nodes = kept]
        BY DEF remove_orphans
      <3> HIDE DEF left, kept, s, swept
      <3>3. /\ DOMAIN swept = {"docs", "saved", "nodes", "edges"} /\ swept.docs = left.docs
            /\ swept.saved = TRUE /\ swept.nodes = kept /\ swept.edges = left.edges
        BY <1>5, <3>1, <3>2 DEF IsSession
      <3>4. IsSession(swept)
        BY <1>5, <3>3 DEF IsSession
      <3>5. kept = {n \in s.nodes : \E e \in swept.edges : n \in {e[1], e[2]}}
        BY <1>5, <3>3 DEF kept
      <3> QED BY <1>3, <1>5, <1>6, <1>9, <3>3, <3>4, <3>5, GcEnds DEF s
    <2>2. CASE ~s.saved
      <3>1. swept = left
        BY <2>2
      <3>2. s.nodes = {}
        BY <1>1, <2>2 DEF IsSession
      <3>3. left.nodes = {n \in s.nodes : \E e \in left.edges : n \in {e[1], e[2]}}
        <4> HIDE DEF left, s
        <4> QED BY <1>5, <3>2
      <3> HIDE DEF left, swept
      <3> QED BY <1>3, <1>5, <1>6, <1>9, <3>1, <3>3, GcEnds DEF s
    <2> QED BY <2>1, <2>2
  <1>10. CollectGarbage(d, s, least, length, f)
         = IF ~Opens(f) THEN On(d, a, Made(d, f), s)
           ELSE IF end.ok THEN IF swept = None THEN On(d, a, Made(d, f), left) ELSE On(d, b, Made(d, f), swept)
           ELSE On(d, a, Made(d, f), left)
    BY DEF CollectGarbage, a, b, end, st
  <1> HIDE DEF swept, left, s
  <1> QED BY <1>3, <1>7, <1>8, <1>9, <1>10 DEF s

LEMMA GcKeeps == ASSUME CommandsInv, NEW args, NEW f PROVE KeepsWord(cmd_gc(args, f))
  <1>1. ASSUME NEW w, NEW v, NEW u, Parses(v, 0, 255)
        PROVE  KeepsWord(CollectGarbage(session_dir(w), sessions[session_dir(w)], NumberOr(v, 0), u, f))
    <2>1. NumberOr(v, 0) \in Nat
      BY <1>1 DEF Parses, NumberOr
    <2> QED BY <2>1, SessionDir, CollectGarbageKeeps
  <1> QED BY <1>1, RefusedKeeps, DoneKeeps DEF cmd_gc

-----------------------------------------------------------------------------
(* Arguments.                                                              *)

\* What is left of a list of words when a flag is taken is a list of them.
LEMMA RestOfFlag ==
    ASSUME NEW S, NEW args \in Seq(S), NEW name
    PROVE  take_value_flag(args, name).rest \in Seq(S)
  <1> DEFINE N == Len(args)
             base == [want |-> FALSE, value |-> None, rest |-> <<>>]
             f == CHOOSE g : g = [n \in 0 .. N |-> IF n = 0 THEN base ELSE TakeWord(g[n - 1], args[n], name)]
             h == CHOOSE g : g = [n \in 0 .. N |-> IF n = 0 THEN base ELSE Turn("word", name, g[n - 1], args[n])]
             G == {n \in 0 .. N : DOMAIN f[n] = {"want", "value", "rest"} /\ f[n].rest \in Seq(S)}
  <1>1. N \in Nat /\ \A i \in 1 .. N : args[i] \in S
    OBVIOUS
  <1>2. take_value_flag(args, name) = f[N]
    BY DEF take_value_flag
  <1>3. f = h
    BY DEF Turn
  <1>4. DOMAIN base = {"want", "value", "rest"} /\ base.rest = <<>>
    OBVIOUS
  <1> HIDE DEF f, N, base
  <1>5. Turns(f, "word", name, base, args, N)
    BY <1>1, <1>3, LoopUnfolds
  <1>6. 0 \in G
    <2>1. f[0] = base
      BY <1>5 DEF Turns
    <2>2. DOMAIN f[0] = {"want", "value", "rest"} /\ f[0].rest = <<>>
      BY <1>4, <2>1
    <2>3. <<>> \in Seq(S) /\ 0 \in 0 .. N
      BY <1>1
    <2> QED BY <2>2, <2>3
  <1>7. ASSUME NEW n \in 1 .. N, n - 1 \in G PROVE n \in G
    <2> DEFINE s == f[n - 1]
    <2>1. f[n] = TakeWord(s, args[n], name)
      BY <1>5 DEF Turns, Turn
    <2>2. DOMAIN s = {"want", "value", "rest"} /\ s.rest \in Seq(S) /\ args[n] \in S /\ n \in 0 .. N
      BY <1>1, <1>7
    <2> HIDE DEF s
    <2>3. DOMAIN f[n] = {"want", "value", "rest"} /\ f[n].rest \in Seq(S)
      BY <2>1, <2>2 DEF TakeWord
    <2> QED BY <2>2, <2>3
  <1> HIDE DEF G
  <1>8. N \in G
    <2>1. 0 .. N \subseteq G
      BY <1>1, <1>6, <1>7, UpTo
    <2> QED BY <1>1, <2>1
  <1> QED BY <1>2, <1>8 DEF G

\* What TakeAll leaves is a list.
LEMMA RestOfAll ==
    ASSUME NEW S, NEW args \in Seq(S), NEW T, NEW names \in Seq(T)
    PROVE  TakeAll(args, names).rest \in Seq(S)
  <1> DEFINE N == Len(names)
             base == [ok |-> TRUE, rest |-> args, value |-> [name \in Range(names) |-> None]]
             f == CHOOSE g : g = [n \in 0 .. N |-> IF n = 0 THEN base ELSE TakeValue(g[n - 1], names[n])]
             h == CHOOSE g : g = [n \in 0 .. N |-> IF n = 0 THEN base ELSE Turn("flag", None, g[n - 1], names[n])]
             G == {n \in 0 .. N : f[n].rest \in Seq(S)}
  <1>1. N \in Nat
    OBVIOUS
  <1>2. TakeAll(args, names) = f[N]
    BY DEF TakeAll
  <1>3. f = h
    BY DEF Turn
  <1>4. base.rest = args
    OBVIOUS
  <1> HIDE DEF f, N, base
  <1>5. Turns(f, "flag", None, base, names, N)
    BY <1>1, <1>3, LoopUnfolds
  <1>6. 0 \in G
    <2>1. f[0] = base
      BY <1>5 DEF Turns
    <2> QED BY <1>1, <1>4, <2>1
  <1>7. ASSUME NEW n \in 1 .. N, n - 1 \in G PROVE n \in G
    <2>1. f[n] = TakeValue(f[n - 1], names[n])
      BY <1>5 DEF Turns, Turn
    <2>2. f[n].rest = take_value_flag(f[n - 1].rest, names[n]).rest
      BY <2>1 DEF TakeValue
    <2> QED BY <1>7, <2>2, RestOfFlag
  <1> HIDE DEF G
  <1>8. N \in G
    <2>1. 0 .. N \subseteq G
      BY <1>1, <1>6, <1>7, UpTo
    <2> QED BY <1>1, <2>1
  <1> QED BY <1>2, <1>8 DEF G

-----------------------------------------------------------------------------
(* `ckos index`.                                                           *)

PassagesOf(file, target, overlap) ==
    {Document("chunk", file, t) : t \in Range(Chunks(disk[file], target, overlap))}

FileDone(s, g, file, target, overlap) ==
    /\ ChunksOf(s, file) = PassagesOf(file, target, overlap)
    /\ Concepts(disk[file]) \subseteq g.nodes

\* After n of the files, s being the session at the start.
Indexed(a, s, files, n, target, overlap) ==
    /\ DOMAIN a = {"s", "graph", "failed", "files", "writes", "deletes"}
    /\ IsSession(a.s) /\ a.s.saved = s.saved /\ a.s.nodes = s.nodes /\ a.s.edges = s.edges
    /\ DOMAIN a.graph = {"docs", "saved", "nodes", "edges"} /\ s.nodes \subseteq a.graph.nodes
    /\ a.failed \in BOOLEAN
    /\ \A x \in s.docs \ a.s.docs : x.kind = "chunk" /\ x.source \in Range(files)
    /\ ~a.failed => \A i \in 1 .. n : FileDone(a.s, a.graph, files[i], target, overlap)

\* The sizes a command may give.
Sizes == {Number[w] : w \in DOMAIN Number} \cup {800, 80}

\* The passages of a file are documents.
LEMMA PassagesAre ==
    ASSUME CommandsInv, NEW file \in DOMAIN disk, NEW target \in Sizes, NEW overlap \in Sizes,
           NEW docs,
           docs = [i \in DOMAIN Chunks(disk[file], target, overlap) |->
                     Document("chunk", file, Chunks(disk[file], target, overlap)[i])]
    PROVE  /\ IsList(docs) /\ Range(docs) = PassagesOf(file, target, overlap)
           /\ \A x \in Range(docs) : IsDocument(x) /\ x.kind = "chunk" /\ x.source = file
  <1> DEFINE texts == Chunks(disk[file], target, overlap)
  <1>1. IsList(texts)
    BY CommandsAssumption DEF CommandsInv, Sizes
  <1> HIDE DEF texts
  <1>2. docs = [i \in DOMAIN texts |-> Document("chunk", file, texts[i])]
    BY DEF texts
  <1>3. Range(docs) = {Document("chunk", file, t) : t \in Range(texts)}
    BY <1>2 DEF Range
  <1>4. DOMAIN docs = 1 .. Len(texts) /\ Len(texts) \in Nat
    BY <1>1, <1>2 DEF IsList
  <1>5. docs \in Seq(Range(docs))
    <2>1. \A i \in 1 .. Len(texts) : docs[i] \in Range(docs)
      BY <1>4 DEF Range
    <2>2. docs = [i \in 1 .. Len(texts) |-> docs[i]]
      BY <1>2, <1>4
    <2> HIDE DEF texts
    <2> QED BY <1>4, <2>1, <2>2
  <1>6. "chunk" \in Kinds
    BY DEF Kinds
  <1>7. \A x \in Range(docs) : IsDocument(x) /\ x.kind = "chunk" /\ x.source = file
    BY <1>3, <1>6, DocumentIs
  <1> QED BY <1>3, <1>5, <1>7 DEF IsList, PassagesOf, texts

\* Old passages deleted and new ones written.
LEMMA ReplaceKeeps ==
    ASSUME NEW s, NEW files, IsList(files), NEW n \in 1 .. Len(files), NEW target, NEW overlap,
           NEW a, Indexed(a, s, files, n - 1, target, overlap), ~a.failed,
           NEW docs, NEW wrote, Range(wrote) \subseteq Range(docs),
           \A x \in Range(docs) : IsDocument(x) /\ x.kind = "chunk" /\ x.source = files[n],
           Range(docs) = PassagesOf(files[n], target, overlap),
           NEW stale, stale = {x \in a.s.docs : x.kind = "chunk" /\ x.source = files[n]}
    PROVE  Indexed(ReplaceChunks(a, files[n], stale, docs, wrote), s, files, n, target, overlap)
  <1> DEFINE file  == files[n]
             r     == ReplaceChunks(a, file, stale, docs, wrote)
             now   == (a.s.docs \ stale) \cup Range(wrote)
             done  == wrote = docs
             learned == IF wrote = docs THEN learn(a.graph, {disk[file]}) ELSE a.graph
             t     == [a.s EXCEPT !.docs = now]
  <1>1. /\ r.s = t /\ r.graph = learned /\ (r.failed <=> ~done) /\ r.failed \in BOOLEAN
        /\ DOMAIN r = {"s", "graph", "failed", "files", "writes", "deletes"}
    BY DEF ReplaceChunks
  <1>2. file \in Range(files)
    BY DEF IsList, Range
  <1>3. /\ IsSession(a.s) /\ a.s.saved = s.saved /\ a.s.nodes = s.nodes /\ a.s.edges = s.edges
        /\ DOMAIN a.graph = {"docs", "saved", "nodes", "edges"} /\ s.nodes \subseteq a.graph.nodes
        /\ \A x \in s.docs \ a.s.docs : x.kind = "chunk" /\ x.source \in Range(files)
    BY DEF Indexed
  <1>4. \A x \in now : IsDocument(x)
    BY <1>3 DEF IsSession
  <1> HIDE DEF r, file
  <1>5. IsSession(t) /\ t.docs = now /\ t.saved = s.saved /\ t.nodes = s.nodes /\ t.edges = s.edges
    <2> DEFINE u == a.s
               v == [u EXCEPT !.docs = now]
    <2>1. IsSession(u) /\ u.saved = s.saved /\ u.nodes = s.nodes /\ u.edges = s.edges
      BY <1>3
    <2> HIDE DEF now, u
    <2>2. IsSession(v) /\ v.docs = now /\ v.saved = u.saved /\ v.nodes = u.nodes /\ v.edges = u.edges
      BY <1>4, <2>1, WithDocs
    <2> QED BY <2>1, <2>2 DEF u
  <1>6. /\ DOMAIN learned = {"docs", "saved", "nodes", "edges"} /\ a.graph.nodes \subseteq learned.nodes
        /\ done => Concepts(disk[file]) \subseteq learned.nodes
    BY <1>3, Learns
  <1>7. \A x \in s.docs \ now : x.kind = "chunk" /\ x.source \in Range(files)
    BY <1>2, <1>3 DEF file
  <1>8. ASSUME ~r.failed, NEW i \in 1 .. n
        PROVE  FileDone(t, learned, files[i], target, overlap)
    <2>1. wrote = docs
      BY <1>1, <1>8
    <2>2. CASE files[i] = file
      <3>1. ChunksOf(t, file) = Range(docs)
        <4>1. now = (a.s.docs \ stale) \cup Range(docs)
          BY <2>1
        <4> HIDE DEF now, t
        <4> QED BY <1>5, <4>1 DEF ChunksOf, file
      <3> QED BY <1>6, <2>1, <2>2, <3>1 DEF FileDone, file
    <2>3. CASE files[i] # file
      <3>1. i \in 1 .. n - 1
        BY <2>3 DEF file
      <3>2. FileDone(a.s, a.graph, files[i], target, overlap)
        BY <3>1 DEF Indexed
      <3>3. ChunksOf(t, files[i]) = ChunksOf(a.s, files[i])
        <4>1. \A x \in stale \cup Range(wrote) : x.source # files[i]
          BY <2>3 DEF file
        <4>2. {x \in now : x.kind = "chunk" /\ x.source = files[i]}
              = {x \in a.s.docs : x.kind = "chunk" /\ x.source = files[i]}
          BY <4>1
        <4> HIDE DEF now, t
        <4> QED BY <1>5, <4>2 DEF ChunksOf
      <3> HIDE DEF learned, t
      <3> QED BY <1>6, <3>2, <3>3 DEF FileDone
    <2> QED BY <2>2, <2>3
  <1> HIDE DEF t, learned, now, done
  <1> QED BY <1>1, <1>3, <1>5, <1>6, <1>7, <1>8 DEF Indexed, r, file

\* The command fails where it is.
LEMMA FailingKeeps ==
    ASSUME NEW s, NEW files, IsList(files), NEW n \in 1 .. Len(files), NEW target, NEW overlap,
           NEW a, Indexed(a, s, files, n - 1, target, overlap),
           NEW gone, \A x \in gone : x.kind = "chunk" /\ x.source = files[n]
    PROVE  /\ Indexed([a EXCEPT !.failed = TRUE], s, files, n, target, overlap)
           /\ Indexed([a EXCEPT !.failed = TRUE, !.s.docs = @ \ gone], s, files, n, target, overlap)
  <1> DEFINE b == [a EXCEPT !.failed = TRUE]
             c == [a EXCEPT !.failed = TRUE, !.s.docs = @ \ gone]
             now == a.s.docs \ gone
             t == [a.s EXCEPT !.docs = now]
  <1>1. files[n] \in Range(files)
    BY DEF IsList, Range
  <1>2. /\ DOMAIN a = {"s", "graph", "failed", "files", "writes", "deletes"}
        /\ IsSession(a.s) /\ a.s.saved = s.saved /\ a.s.nodes = s.nodes /\ a.s.edges = s.edges
        /\ DOMAIN a.graph = {"docs", "saved", "nodes", "edges"} /\ s.nodes \subseteq a.graph.nodes
        /\ \A x \in s.docs \ a.s.docs : x.kind = "chunk" /\ x.source \in Range(files)
    BY DEF Indexed
  <1>3. b.failed = TRUE /\ b.s = a.s /\ b.graph = a.graph /\ DOMAIN b = DOMAIN a
    BY <1>2
  <1>4. c.failed = TRUE /\ c.s = t /\ c.graph = a.graph /\ DOMAIN c = DOMAIN a
    BY <1>2
  <1>5. IsSession(t) /\ t.docs = now /\ t.saved = s.saved /\ t.nodes = s.nodes /\ t.edges = s.edges
    <2>1. \A x \in now : IsDocument(x)
      BY <1>2 DEF IsSession
    <2> DEFINE u == a.s
               v == [u EXCEPT !.docs = now]
    <2>2. IsSession(u) /\ u.saved = s.saved /\ u.nodes = s.nodes /\ u.edges = s.edges
      BY <1>2
    <2> HIDE DEF now, u
    <2>3. IsSession(v) /\ v.docs = now /\ v.saved = u.saved /\ v.nodes = u.nodes /\ v.edges = u.edges
      <3>1. IsSession(u)
        BY <2>2
      <3> QED BY ONLY <2>1, <3>1, WithDocs
    <2> HIDE DEF v
    <2>4. IsSession(v) /\ v.docs = now /\ v.saved = s.saved /\ v.nodes = s.nodes /\ v.edges = s.edges
      BY <2>2, <2>3
    <2> QED BY <2>4 DEF u, v
  <1>6. \A x \in s.docs \ now : x.kind = "chunk" /\ x.source \in Range(files)
    BY <1>1, <1>2
  <1> HIDE DEF t, now, b, c
  <1>7. Indexed(b, s, files, n, target, overlap)
    BY <1>2, <1>3 DEF Indexed
  <1>8. Indexed(c, s, files, n, target, overlap)
    BY <1>2, <1>4, <1>5, <1>6 DEF Indexed
  <1> QED BY <1>7, <1>8 DEF b, c

\* One file more, whatever fails.
LEMMA IndexFileKeeps ==
    ASSUME CommandsInv, NEW s, NEW files, IsList(files), NEW n \in 1 .. Len(files),
           NEW target \in Sizes, NEW overlap \in Sizes, NEW f,
           NEW a, Indexed(a, s, files, n - 1, target, overlap)
    PROVE  Indexed(IndexFile(a, files[n], f, target, overlap), s, files, n, target, overlap)
  <1> DEFINE file == files[n]
             docs == [i \in DOMAIN Chunks(disk[file], target, overlap) |->
                        Document("chunk", file, Chunks(disk[file], target, overlap)[i])]
             stale == {x \in a.s.docs : x.kind = "chunk" /\ x.source = file}
             gone  == Reached(f, "delete", stale, a.deletes)
             wrote == Written(f, docs, a.writes)
             stop  == a.failed \/ file \notin DOMAIN disk \/ FailsAt(f, "read", a.files + 1)
  <1>1. IndexFile(a, file, f, target, overlap)
        = IF stop THEN [a EXCEPT !.failed = TRUE]
          ELSE IF gone # stale THEN [a EXCEPT !.failed = TRUE, !.s.docs = @ \ gone]
          ELSE ReplaceChunks(a, file, stale, docs, wrote)
    BY DEF IndexFile
  <1>2. \A x \in gone : x.kind = "chunk" /\ x.source = files[n]
    BY DEF Reached
  <1>3. /\ Indexed([a EXCEPT !.failed = TRUE], s, files, n, target, overlap)
        /\ Indexed([a EXCEPT !.failed = TRUE, !.s.docs = @ \ gone], s, files, n, target, overlap)
    <2> HIDE DEF gone
    <2> QED BY <1>2, FailingKeeps
  <1>4. ASSUME ~stop PROVE Indexed(ReplaceChunks(a, file, stale, docs, wrote), s, files, n, target, overlap)
    <2>1. file \in DOMAIN disk /\ ~a.failed
      BY <1>4
    <2> DEFINE d == docs
    <2>2. d = [i \in DOMAIN Chunks(disk[file], target, overlap) |->
                 Document("chunk", file, Chunks(disk[file], target, overlap)[i])]
      OBVIOUS
    <2> HIDE DEF d
    <2>3. /\ IsList(d) /\ Range(d) = PassagesOf(file, target, overlap)
          /\ \A x \in Range(d) : IsDocument(x) /\ x.kind = "chunk" /\ x.source = file
      <3> HIDE DEF file
      <3> QED BY <2>1, <2>2, PassagesAre
    <2>4. Range(Written(f, d, a.writes)) \subseteq Range(d)
      BY <2>3, WrittenIsPart
    <2> DEFINE w == Written(f, d, a.writes)
               old == stale
    <2>5. old = {x \in a.s.docs : x.kind = "chunk" /\ x.source = files[n]}
      OBVIOUS
    <2> HIDE DEF w, old
    <2>6. Indexed(ReplaceChunks(a, files[n], old, d, w), s, files, n, target, overlap)
      BY <2>1, <2>3, <2>4, <2>5, ReplaceKeeps DEF w
    <2> QED BY <2>6 DEF w, d, old
  <1> HIDE DEF stop, gone, stale, docs, wrote
  <1>5. Indexed(IndexFile(a, file, f, target, overlap), s, files, n, target, overlap)
    BY <1>1, <1>3, <1>4
  <1> QED BY <1>5

\* All the files.
LEMMA IndexAllKeeps ==
    ASSUME CommandsInv, NEW s, IsSession(s), NEW files, IsList(files),
           NEW target \in Sizes, NEW overlap \in Sizes, NEW f
    PROVE  Indexed(IndexAll(s, files, target, overlap, f), s, files, Len(files), target, overlap)
  <1> DEFINE N == Len(files)
             c == <<f, target, overlap>>
             base == [s |-> s, graph |-> s, failed |-> FALSE, files |-> 0, writes |-> 0, deletes |-> 0]
             h == CHOOSE g : g = [n \in 0 .. N |->
                    IF n = 0 THEN base ELSE IndexFile(g[n - 1], files[n], f, target, overlap)]
             k == CHOOSE g : g = [n \in 0 .. N |-> IF n = 0 THEN base ELSE Turn("file", c, g[n - 1], files[n])]
             G == {n \in 0 .. N : Indexed(h[n], s, files, n, target, overlap)}
  <1>1. N \in Nat
    BY DEF IsList
  <1>2. IndexAll(s, files, target, overlap, f) = h[N]
    BY DEF IndexAll
  <1>3. c[1] = f /\ c[2] = target /\ c[3] = overlap
    OBVIOUS
  <1>4. \A a, x : Turn("file", c, a, x) = IndexFile(a, x, f, target, overlap)
    <2> HIDE DEF c
    <2> QED BY <1>3 DEF Turn
  <1>5. h = k
    <2> HIDE DEF c, base, N
    <2> QED BY <1>4
  <1>6. Indexed(base, s, files, 0, target, overlap)
    BY DEF Indexed, IsSession
  <1> HIDE DEF h, N, base, c
  <1>7. Turns(h, "file", c, base, files, N)
    BY <1>1, <1>5, LoopUnfolds
  <1>8. 0 \in G
    <2>1. h[0] = base
      BY <1>7 DEF Turns
    <2> QED BY <1>1, <1>6, <2>1
  <1>9. ASSUME NEW n \in 1 .. N, n - 1 \in G PROVE n \in G
    <2>1. h[n] = IndexFile(h[n - 1], files[n], f, target, overlap)
      BY <1>4, <1>7 DEF Turns
    <2>2. Indexed(h[n - 1], s, files, n - 1, target, overlap) /\ n \in 0 .. N /\ n \in 1 .. Len(files)
      BY <1>9 DEF N
    <2>3. Indexed(h[n], s, files, n, target, overlap)
      BY <2>1, <2>2, IndexFileKeeps
    <2> QED BY <2>2, <2>3
  <1> HIDE DEF G
  <1>10. N \in G
    <2>1. 0 .. N \subseteq G
      BY <1>1, <1>8, <1>9, UpTo
    <2> QED BY <1>1, <2>1
  <1>11. Indexed(h[N], s, files, N, target, overlap)
    BY <1>10 DEF G
  <1> QED BY <1>2, <1>11 DEF N

\* The documents of the new concepts are no passages.
LEMMA NodesKeep ==
    ASSUME NEW end, IsSession(end.s), NEW new, NEW f
    PROVE  LET t == WithNodes(end, new, f)
           IN  /\ IsSession(t) /\ t.saved = end.s.saved /\ t.nodes = end.s.nodes /\ t.edges = end.s.edges
               /\ end.s.docs \subseteq t.docs /\ \A file : ChunksOf(t, file) = ChunksOf(end.s, file)
  <1> DEFINE missed == {c \in new : /\ f # None /\ f.op = "write"
                                    /\ f.at - end.writes \in 1 .. Cardinality(new)
                                    /\ c = CHOOSE n \in new : TRUE}
             added == {NodeDoc(end.graph, c) : c \in new \ missed}
             s == end.s
             docs == s.docs \cup added
  <1>1. WithNodes(end, new, f) = [s EXCEPT !.docs = docs]
    BY DEF WithNodes
  <1>2. \A x \in added : IsDocument(x) /\ x.kind = "graph_node"
    <2>1. "graph_node" \in Kinds
      BY DEF Kinds
    <2>2. \A c : IsDocument(NodeDoc(end.graph, c)) /\ NodeDoc(end.graph, c).kind = "graph_node"
      BY <2>1, DocumentIs DEF NodeDoc
    <2> QED BY <2>2
  <1> HIDE DEF added, s
  <1>3. IsSession(s)
    BY DEF s
  <1>4. \A x \in docs : IsDocument(x)
    BY <1>2, <1>3 DEF IsSession
  <1>5. \A file : {x \in docs : x.kind = "chunk" /\ x.source = file}
                  = {x \in s.docs : x.kind = "chunk" /\ x.source = file}
    BY <1>2
  <1>6. s.docs \subseteq docs
    OBVIOUS
  <1> HIDE DEF docs
  <1> DEFINE t == [s EXCEPT !.docs = docs]
  <1>7. IsSession(t) /\ t.docs = docs /\ t.saved = s.saved /\ t.nodes = s.nodes /\ t.edges = s.edges
    BY <1>3, <1>4, WithDocs
  <1> HIDE DEF t
  <1>8. \A file : ChunksOf(t, file) = ChunksOf(s, file)
    BY <1>5, <1>7 DEF ChunksOf
  <1> QED BY <1>1, <1>6, <1>7, <1>8 DEF s, t

\* `ckos index`, whatever files were done when it failed.
LEMMA IndexFilesKeeps ==
    ASSUME CommandsInv, NEW d \in Path, NEW files, IsList(files),
           NEW target \in Sizes, NEW overlap \in Sizes, NEW f
    PROVE  KeepsWord(IndexFiles(d, files, target, overlap, f))
  <1> DEFINE s    == sessions[d]
             told == [files |-> files, target |-> target, overlap |-> overlap]
             a    == [Answer("index", 1) EXCEPT !.told = told]
             b    == [a EXCEPT !.code = 0]
             end  == IndexAll(s, files, target, overlap, f)
             whole == WithNodes(end, end.graph.nodes \ s.nodes, f)
             saved == [whole EXCEPT !.saved = TRUE, !.nodes = end.graph.nodes, !.edges = end.graph.edges]
             ca   == [a EXCEPT !.dir = d]
             cb   == [b EXCEPT !.dir = d]
  <1>1. /\ IsAnswer(a) /\ a.name = "index" /\ a.code = 1 /\ a.told = told /\ a.ran = {} /\ ~a.web
    <2> HIDE DEF told
    <2> QED BY AnswerIs, IsTold
  <1>2. /\ IsAnswer(b) /\ b.name = "index" /\ b.code = 0 /\ b.told = told /\ b.ran = {} /\ ~b.web
    <2> HIDE DEF a, told
    <2> QED BY <1>1, Ends
  <1>3. told.files = files /\ told.target = target /\ told.overlap = overlap
    OBVIOUS
  <1> HIDE DEF told, a, b
  <1>4. ca.name = "index" /\ ca.code = 1 /\ ca.told = told /\ cb.name = "index" /\ cb.code = 0 /\ cb.told = told
    BY <1>1, <1>2 DEF IsAnswer
  <1>5. IsSession(s)
    BY DEF CommandsInv
  <1>6. Indexed(end, s, files, Len(files), target, overlap)
    <2> HIDE DEF s
    <2> QED BY <1>5, IndexAllKeeps
  <1> HIDE DEF end, ca, cb
  <1>7. /\ IsSession(end.s) /\ end.s.saved = s.saved /\ end.s.nodes = s.nodes /\ end.s.edges = s.edges
        /\ s.nodes \subseteq end.graph.nodes
        /\ \A x \in s.docs \ end.s.docs : x.kind = "chunk" /\ x.source \in Range(files)
    BY <1>6 DEF Indexed
  <1>8. /\ IsSession(whole) /\ whole.saved = s.saved /\ whole.nodes = s.nodes /\ whole.edges = s.edges
        /\ end.s.docs \subseteq whole.docs /\ \A file : ChunksOf(whole, file) = ChunksOf(end.s, file)
    <2> DEFINE new == end.graph.nodes \ s.nodes
    <2> HIDE DEF new, s
    <2>1. LET t == WithNodes(end, new, f)
          IN  /\ IsSession(t) /\ t.saved = end.s.saved /\ t.nodes = end.s.nodes /\ t.edges = end.s.edges
              /\ end.s.docs \subseteq t.docs /\ \A file : ChunksOf(t, file) = ChunksOf(end.s, file)
      BY <1>7, NodesKeep
    <2> QED BY <1>7, <2>1 DEF new
  <1> HIDE DEF s, whole
  \* A failure, or a graph that cannot be saved.
  <1>9. ASSUME NEW t, IsSession(t), t.saved = s.saved, t.nodes = s.nodes, t.edges = s.edges,
               \A x \in s.docs \ t.docs : x.kind = "chunk" /\ x.source \in Range(files)
        PROVE  KeepsWord(On(d, a, Made(d, f), t))
    <2>1. NothingLost(ca, s, t)
      BY <1>3, <1>4, <1>9 DEF NothingLost
    <2>2. FailureIsHarmless(ca, s, t)
      <3>1. [t EXCEPT !.docs = {}] = [s EXCEPT !.docs = {}]
        BY <1>5, <1>9, SameButDocs
      <3> QED BY <1>4, <3>1 DEF FailureIsHarmless
    <2>3. ~Succeeded(ca)
      BY <1>4 DEF Succeeded
    <2>4. WordKept([a EXCEPT !.dir = d], sessions[d], t)
      BY <2>1, <2>2, <2>3 DEF WordKept, ca, s
    <2> QED BY <1>1, <1>9, <2>4, SomethingHappens
  <1>10. KeepsWord(On(d, a, Made(d, f), s))
    BY <1>5, <1>9
  <1>11. KeepsWord(On(d, a, Made(d, f), end.s))
    BY <1>7, <1>9
  <1>12. KeepsWord(On(d, a, Made(d, f), whole))
    BY <1>7, <1>8, <1>9
  \* The success.
  <1>13. ASSUME ~end.failed PROVE KeepsWord(On(d, b, Made(d, f), saved))
    <2>1. /\ DOMAIN saved = {"docs", "saved", "nodes", "edges"} /\ saved.saved = TRUE
          /\ saved.docs = whole.docs /\ saved.nodes = end.graph.nodes
      BY <1>8 DEF IsSession
    <2>2. IsSession(saved)
      BY <1>8, <2>1 DEF IsSession
    <2>3. \A file : ChunksOf(saved, file) = ChunksOf(end.s, file)
      BY <1>8, <2>1 DEF ChunksOf
    <2> HIDE DEF saved
    <2>4. NothingLost(cb, s, saved)
      BY <1>3, <1>4, <1>7, <1>8, <2>1 DEF NothingLost
    <2>5. ASSUME NEW file \in Range(files)
          PROVE  /\ ChunksOf(saved, file) = PassagesOf(file, target, overlap)
                 /\ Concepts(disk[file]) \subseteq saved.nodes
      <3>1. PICK i \in 1 .. Len(files) : files[i] = file
        BY DEF IsList, Range
      <3>2. FileDone(end.s, end.graph, file, target, overlap)
        BY <1>6, <1>13, <3>1 DEF Indexed
      <3> QED BY <2>1, <2>3, <3>2 DEF FileDone
    <2>6. SuccessIsComplete(cb, s, saved)
      BY <1>3, <1>4, <2>5 DEF SuccessIsComplete, PassagesOf
    <2>7. Succeeded(cb)
      BY <1>4 DEF Succeeded
    <2>8. WordKept([b EXCEPT !.dir = d], sessions[d], saved)
      BY <2>4, <2>6, <2>7 DEF WordKept, cb, s
    <2> QED BY <1>2, <2>2, <2>8, SomethingHappens
  <1>14. IndexFiles(d, files, target, overlap, f)
         = IF ~Opens(f) \/ Fails(f, "lock") \/ ~Loads(s, f) THEN On(d, a, Made(d, f), s)
           ELSE IF end.failed THEN On(d, a, Made(d, f), end.s)
           ELSE IF Fails(f, "save") THEN On(d, a, Made(d, f), whole)
           ELSE On(d, b, Made(d, f), saved)
    BY DEF IndexFiles, SaveIndex, a, b, told, end, whole, s
  <1> HIDE DEF saved
  <1> QED BY <1>10, <1>11, <1>12, <1>13, <1>14

LEMMA IndexKeeps ==
    ASSUME CommandsInv, NEW line \in Line, line # <<>>, NEW f
    PROVE  KeepsWord(cmd_index(Tail(line), f))
  <1> DEFINE args  == Tail(line)
             names == <<"--chunk", "--overlap">>
             p     == TakeAll(args, names)
  <1>1. line \in Seq(Range(line))
    BY CommandsAssumption DEF IsList
  <1> DEFINE S == Range(line)
  <1>2. args \in Seq(S)
    <2> HIDE DEF S
    <2> QED BY <1>1, HeadTailProperties DEF S
  <1>3. names \in Seq({"--chunk", "--overlap"})
    OBVIOUS
  <1> HIDE DEF S, args, names
  <1>4. p.rest \in Seq(S)
    BY <1>2, <1>3, RestOfAll
  <1> HIDE DEF p
  <1>5. ASSUME Len(p.rest) >= 2 PROVE IsList(Tail(p.rest))
    <2>1. Tail(p.rest) \in Seq(S)
      BY <1>4, <1>5
    <2> QED BY <2>1, ListOf
  <1>6. ASSUME NEW w, NEW lo \in {800, 80}, Parses(w, 0, 1000)
        PROVE  NumberOr(w, lo) \in Sizes
    BY <1>6 DEF Parses, NumberOr, Sizes
  <1>7. ASSUME Parses(p.value["--chunk"], 0, 1000), Parses(p.value["--overlap"], 0, 1000), Len(p.rest) >= 2
        PROVE  KeepsWord(IndexFiles(session_dir(p.rest[1]), Tail(p.rest), NumberOr(p.value["--chunk"], 800),
                 NumberOr(p.value["--overlap"], 80), f))
    <2>1. NumberOr(p.value["--chunk"], 800) \in Sizes /\ NumberOr(p.value["--overlap"], 80) \in Sizes
      BY <1>6, <1>7
    <2> QED BY <1>5, <1>7, <2>1, SessionDir, IndexFilesKeeps
  <1>8. Len(p.rest) \in Nat
    BY <1>4
  <1> QED BY <1>7, <1>8, RefusedKeeps, DoneKeeps DEF cmd_index, p, args, names

-----------------------------------------------------------------------------
(* Every command and every request.                                        *)

\* Every command line.
LEMMA MainKeeps ==
    ASSUME CommandsInv, NEW line \in Line, NEW f
    PROVE  KeepsWord(main(line, f))
  <1>1. CASE line = <<>>
    BY <1>1, DoneKeeps DEF main
  <1>2. CASE line # <<>>
    <2> DEFINE args == Tail(line)
               word == line[1]
    <2>1. KeepsWord(cmd_run(args, f)) /\ KeepsWord(cmd_index(args, f))
      BY <1>2, RunKeeps, IndexKeeps
    <2>2. KeepsWord(cmd_plan(args)) /\ KeepsWord(cmd_verify(args)) /\ KeepsWord(cmd_serve(args, f))
      BY PlanKeeps, VerifyKeeps, ServeKeeps
    <2>3. KeepsWord(cmd_history(args, f)) /\ KeepsWord(cmd_search(args, f))
          /\ KeepsWord(cmd_eval(args, f)) /\ KeepsWord(cmd_kql(args, f))
      BY HistoryKeeps, SearchKeeps, EvalKeeps, QueryKeeps
    <2>4. KeepsWord(cmd_workflow(args, f)) /\ KeepsWord(cmd_tool(args))
      BY WorkflowKeeps, ToolKeeps
    <2>5. KeepsWord(cmd_graph(args, f)) /\ KeepsWord(cmd_gc(args, f))
      BY GraphKeeps, GcKeeps
    <2>6. KeepsWord(Done(word)) /\ KeepsWord(Refused("unknown"))
      BY DoneKeeps, RefusedKeeps
    <2> HIDE DEF args, word
    <2> QED BY <1>2, <2>1, <2>2, <2>3, <2>4, <2>5, <2>6 DEF main, args, word
  <1> QED BY <1>1, <1>2

\* What is kept of its word by the effect is kept by the step.
LEMMA HappensKeeps ==
    ASSUME CommandsInv, NEW effect, KeepsWord(effect), Happens(effect)
    PROVE  /\ CommandsInv'
           /\ LET a == last'
              IN  /\ \A d \in Path : sessions'[d] # sessions[d] => d = a.dir
                  /\ \A d \in made' \ made : a.dir # None /\ IsPrefix(d, a.dir)
                  /\ a.web /\ a.dir # None => IsPrefix(Root, a.dir)
                  /\ NoPrivilegeByDefault(a)
                  /\ a.dir # None => WordKept(a, sessions[a.dir], sessions'[a.dir])
  <1> DEFINE a == effect.last
             s == effect.session
  <1>1. /\ last' = a /\ made' = effect.made /\ disk' = disk
        /\ sessions' = [d \in Path |-> IF d = a.dir THEN s ELSE sessions[d]]
    BY DEF Happens
  <1>2. /\ a.dir \in Path \cup {None}
        /\ \A d \in effect.made \ made : a.dir # None /\ IsPrefix(d, a.dir)
        /\ a.web /\ a.dir # None => IsPrefix(Root, a.dir)
        /\ NoPrivilegeByDefault(a)
        /\ a.dir # None => IsSession(s) /\ WordKept(a, sessions[a.dir], s)
    BY DEF KeepsWord
  <1> HIDE DEF a, s
  <1>3. \A d \in Path : IsSession(sessions'[d])
    <2> TAKE d \in Path
    <2>1. CASE d = a.dir
      BY <1>1, <1>2, <2>1, NoneIsNoPath
    <2>2. CASE d # a.dir
      BY <1>1, <2>2 DEF CommandsInv
    <2> QED BY <2>1, <2>2
  <1>4. CommandsInv'
    BY <1>1, <1>3 DEF CommandsInv
  <1>5. a.dir # None => sessions'[a.dir] = s
    BY <1>1, <1>2
  <1>6. \A d \in Path : sessions'[d] # sessions[d] => d = a.dir
    BY <1>1
  <1> QED BY <1>1, <1>2, <1>4, <1>5, <1>6

\* Whatever failed before, every command and every request keeps its word:
\* it touches what it names and nothing else, loses nothing unasked, fails
\* harmlessly, succeeds completely, and the policy applies (main.rs, routes.rs).
THEOREM CommandsAreFaithful == CommandsSpec => CommandsKeepTheirWord
  <1> DEFINE Word == commands' # commands =>
         LET a == last'
         IN  /\ \A d \in Path : sessions'[d] # sessions[d] => d = a.dir
             /\ \A d \in made' \ made : a.dir # None /\ IsPrefix(d, a.dir)
             /\ a.web /\ a.dir # None => IsPrefix(Root, a.dir)
             /\ NoPrivilegeByDefault(a)
             /\ a.dir # None =>
                  LET before == sessions[a.dir]
                      after  == sessions'[a.dir]
                  IN  /\ NothingLost(a, before, after)
                      /\ ~Succeeded(a) => FailureIsHarmless(a, before, after)
                      /\ Succeeded(a) /\ ~a.warned => SuccessIsComplete(a, before, after)
  <1>1. CommandsInit => CommandsInv
    <2> SUFFICES ASSUME CommandsInit PROVE CommandsInv
      OBVIOUS
    <2>1. IsSession(Fresh)
      BY DEF Fresh, IsSession
    <2>2. \A d \in Path : sessions[d] = Fresh
      BY DEF CommandsInit
    <2>3. \A file \in DOMAIN disk : file \in DOMAIN Content /\ disk[file] = Content[file][1]
      BY DEF CommandsInit
    <2>4. \A file \in DOMAIN disk : disk[file] \in Range(Content[file])
      BY <2>3, CommandsAssumption DEF Range
    <2> QED BY <2>1, <2>2, <2>3, <2>4 DEF CommandsInv
  <1>2. ASSUME CommandsInv, [CommandsNext]_commandVars
        PROVE  CommandsInv' /\ [Word]_commandVars
    <2>1. ASSUME NEW effect, KeepsWord(effect), Happens(effect)
          PROVE  CommandsInv' /\ Word
      BY <1>2, <2>1, HappensKeeps DEF WordKept
    <2> HIDE DEF Word
    <2>2. ASSUME NEW line \in Line, NEW f, Command(line, f)
          PROVE  CommandsInv' /\ Word
      BY <1>2, <2>1, <2>2, MainKeeps DEF Command
    <2>3. ASSUME NEW req \in Request, NEW f, Serve(req, f)
          PROVE  CommandsInv' /\ Word
      BY <1>2, <2>1, <2>3, RouteKeeps DEF Serve
    <2>4. ASSUME NEW file \in DOMAIN Content, NEW text \in Range(Content[file]), EditFile(file, text)
          PROVE  CommandsInv' /\ Word
      BY <1>2, <2>4 DEF EditFile, CommandsInv, Word
    <2>5. ASSUME UNCHANGED commandVars PROVE CommandsInv' /\ [Word]_commandVars
      BY <1>2, <2>5 DEF commandVars, CommandsInv
    <2> QED BY <1>2, <2>2, <2>3, <2>4, <2>5 DEF CommandsNext
  <1>3. CommandsSpec => [][Word]_commandVars
    <2> HIDE DEF Word
    <2> QED BY <1>1, <1>2, PTL DEF CommandsSpec
  <1> QED BY <1>3 DEF CommandsKeepTheirWord
=============================================================================
