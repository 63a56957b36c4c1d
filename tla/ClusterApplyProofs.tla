------------------------- MODULE ClusterApplyProofs -------------------------
(***************************************************************************)
(* No interleaving of the requests that write cluster.json, and no failure *)
(* of one, takes the internal token away from a machine that has one. And  *)
(* what one request does that meets no other: a rotation changes the token *)
(* of its own machine last, an insert leaves all machines the same.        *)
(***************************************************************************)
EXTENDS ClusterApply, TLAPS

OpFields == {"pc", "at", "req", "loaded", "old", "todo", "targets", "cur", "failed", "silent",
             "alone"}
SrvFields == {"pc", "header", "loaded", "code"}

Shape ==
    /\ DOMAIN file = Node
    /\ DOMAIN op = Op /\ DOMAIN srv = Op
    /\ \A o \in Op : DOMAIN op[o] = OpFields /\ DOMAIN srv[o] = Node
    /\ \A o \in Op, t \in Node : DOMAIN srv[o][t] = SrvFields

\* What the handler of a request is about to save.
OpTokens ==
    \A o \in Op :
        /\ op[o].pc # "none" /\ op[o].req.action \in {"insert", "rotate"} =>
             op[o].req.token # NoToken
        /\ op[o].pc = "token" => op[o].old # NoToken
        /\ op[o].pc \in {"setload", "setsave"} => op[o].req.action = "rotate"

\* What the handler of a call is about to save, and what it found.
SrvTokens ==
    \A o \in Op, t \in Node :
        /\ srv[o][t].pc # "idle" => op[o].pc # "none"
        /\ srv[o][t].pc \in {"tokenload", "tokensave"} =>
             op[o].req.action \in {"insert", "rotate"}
        /\ srv[o][t].pc \in {"resetload", "resetsave"} => op[o].req.action \in {"insert", "reset"}
        /\ srv[o][t].pc \in {"insertload", "insertsave"} => op[o].req.action = "insert"
        /\ srv[o][t].pc \in {"resetload", "resetsave", "removeload", "removelines",
                             "removesave"} => file[t].token # NoToken
        /\ srv[o][t].pc \in {"resetsave", "removelines", "removesave"} =>
             srv[o][t].loaded.token # NoToken

TokenInv == Shape /\ OpTokens /\ SrvTokens

NoneCleared == \A n \in Node : file[n].token # NoToken => file'[n].token # NoToken

-----------------------------------------------------------------------------
\* At the beginning no handler is at work.
LEMMA InitTokens == Init => TokenInv
  BY StartAssumption
  DEF Init, TokenInv, Shape, OpTokens, SrvTokens, IdleOp, IdleSrv, OpFields, SrvFields

\* The table of the handlers of calls keeps its shape.
SrvShape == /\ DOMAIN srv = Op
            /\ \A p \in Op : DOMAIN srv[p] = Node
            /\ \A p \in Op, u \in Node : DOMAIN srv[p][u] = SrvFields

\* A handler that goes on keeps what it has loaded.
LEMMA GoToEffect ==
  ASSUME Shape, NEW o \in Op, NEW t \in Node, NEW pc, GoTo(o, t, pc)
  PROVE  /\ SrvShape'
         /\ \A p \in Op, u \in Node : p # o \/ u # t => srv'[p][u] = srv[p][u]
         /\ srv'[o][t].pc = pc /\ srv'[o][t].loaded = srv[o][t].loaded
  BY DEF Shape, SrvShape, GoTo, SrvFields

\* A handler that loads has the file of its machine.
LEMMA LoadEffect ==
  ASSUME Shape, NEW o \in Op, NEW t \in Node, NEW pc, Load(o, t, pc)
  PROVE  /\ SrvShape'
         /\ \A p \in Op, u \in Node : p # o \/ u # t => srv'[p][u] = srv[p][u]
         /\ srv'[o][t].pc = pc /\ srv'[o][t].loaded = file[t]
  BY DEF Shape, SrvShape, Load, SrvFields

\* A handler that answers is at no step that saves.
LEMMA ReplyEffect ==
  ASSUME Shape, NEW o \in Op, NEW t \in Node, NEW code, Reply(o, t, code)
  PROVE  /\ SrvShape'
         /\ \A p \in Op, u \in Node : p # o \/ u # t => srv'[p][u] = srv[p][u]
         /\ srv'[o][t].pc = "reply" /\ srv'[o][t].code = code /\ srv'[o][t].loaded = NoFile
  <1> DEFINE new == [IdleSrv EXCEPT !.pc = "reply", !.code = code]
  <1>1. DOMAIN new = SrvFields /\ new.pc = "reply" /\ new.code = code /\ new.loaded = NoFile
    BY DEF IdleSrv, SrvFields
  <1>2. srv' = [srv EXCEPT ![o][t] = new]
    BY DEF Reply
  <1> HIDE DEF new
  <1> QED BY <1>1, <1>2 DEF Shape, SrvShape

\* A request that begins leaves the others as they are, but for alone.
LEMMA EnterEffect ==
  ASSUME Shape, NEW o \in Op, NEW new, DOMAIN new = OpFields, Enter(o, new)
  PROVE  /\ DOMAIN op' = Op /\ \A p \in Op : DOMAIN op'[p] = OpFields
         /\ \A p \in Op \ {o} : /\ op'[p].pc = op[p].pc
                                 /\ op'[p].req = op[p].req
                                 /\ op'[p].old = op[p].old
         /\ op'[o].pc = new.pc /\ op'[o].req = new.req /\ op'[o].old = new.old
  BY DEF Shape, Enter, OpFields

\* Its handler begins with the tokens that it will send and save.
LEMMA EnterTokens ==
  ASSUME TokenInv, NEW o \in Op, op[o].pc = "none", UNCHANGED <<file, srv>>,
         NEW new, DOMAIN new = OpFields, Enter(o, new), new.pc \in {"token", "send"},
         new.req.action \in {"insert", "rotate"} => new.req.token # NoToken,
         new.pc = "token" => new.old # NoToken
  PROVE  TokenInv' /\ NoneCleared
  <1>1. /\ DOMAIN op' = Op /\ \A p \in Op : DOMAIN op'[p] = OpFields
        /\ \A p \in Op \ {o} : /\ op'[p].pc = op[p].pc
                                /\ op'[p].req = op[p].req
                                /\ op'[p].old = op[p].old
        /\ op'[o].pc = new.pc /\ op'[o].req = new.req /\ op'[o].old = new.old
    BY EnterEffect DEF TokenInv
  <1>2. Shape' /\ NoneCleared
    BY <1>1 DEF TokenInv, Shape, NoneCleared
  <1>3. OpTokens'
    BY <1>1 DEF TokenInv, OpTokens
  <1>4. \A t \in Node : srv[o][t].pc = "idle"
    BY DEF TokenInv, SrvTokens
  <1>5. SrvTokens'
    <2> SUFFICES ASSUME NEW p \in Op, NEW t \in Node
                 PROVE  (/\ srv[p][t].pc # "idle" => op[p].pc # "none"
                         /\ srv[p][t].pc \in {"tokenload", "tokensave"} =>
                              op[p].req.action \in {"insert", "rotate"}
                         /\ srv[p][t].pc \in {"resetload", "resetsave"} =>
                              op[p].req.action \in {"insert", "reset"}
                         /\ srv[p][t].pc \in {"insertload", "insertsave"} =>
                              op[p].req.action = "insert"
                         /\ srv[p][t].pc \in {"resetload", "resetsave", "removeload",
                                              "removelines", "removesave"} =>
                              file[t].token # NoToken
                         /\ srv[p][t].pc \in {"resetsave", "removelines", "removesave"} =>
                              srv[p][t].loaded.token # NoToken)'
      BY DEF SrvTokens
    <2>1. CASE p = o
      BY <1>4, <2>1
    <2>2. CASE p # o
      BY <1>1, <2>2 DEF TokenInv, SrvTokens
    <2> QED
      BY <2>1, <2>2
  <1> QED
    BY <1>2, <1>3, <1>5 DEF TokenInv

\* It begins without the others that were alone, and is alone if none is at work.
LEMMA EnterAlone ==
  ASSUME Shape, NEW o \in Op, NEW new, DOMAIN new = OpFields, Enter(o, new)
  PROVE  /\ op'[o].at = new.at /\ op'[o].todo = new.todo /\ op'[o].targets = new.targets
         /\ op'[o].failed = new.failed /\ op'[o].silent = new.silent
         /\ op'[o].alone = (\A q \in Op \ {o} : ~Active(q))
         /\ \A p \in Op \ {o} : ~op'[p].alone
  <1>1. PICK b : b = (\A q \in Op \ {o} : ~Active(q))
    OBVIOUS
  <1>2. /\ op'[o] = [new EXCEPT !.alone = b]
        /\ \A p \in Op \ {o} : op'[p] = [op[p] EXCEPT !.alone = FALSE]
    BY <1>1 DEF Enter
  <1>3. ASSUME NEW p \in Op \ {o}
        PROVE  ~op'[p].alone
    <2>1. op'[p] = [op[p] EXCEPT !.alone = FALSE] /\ "alone" \in DOMAIN op[p]
      BY <1>2 DEF Shape, OpFields
    <2>2. op'[p].alone = FALSE
      BY <2>1
    <2> QED
      BY <2>2
  <1>4. /\ op'[o].at = new.at /\ op'[o].todo = new.todo /\ op'[o].targets = new.targets
        /\ op'[o].failed = new.failed /\ op'[o].silent = new.silent /\ op'[o].alone = b
    BY <1>2 DEF OpFields
  <1> QED
    BY <1>1, <1>3, <1>4

\* A step that leaves the bodies alone, begins no request, takes no token away, and ends calls
\* at most.
LEMMA TokensKept ==
  ASSUME TokenInv, NoneCleared, DOMAIN file' = Node, SrvShape',
         DOMAIN op' = Op, \A p \in Op : DOMAIN op'[p] = OpFields,
         \A p \in Op : op'[p].req = op[p].req /\ op'[p].old = op[p].old,
         \A p \in Op : \/ op'[p].pc = op[p].pc
                      \/ /\ op[p].pc # "none" /\ op'[p].pc \notin {"none", "token"}
                         /\ op'[p].pc \in {"setload", "setsave"} => op[p].req.action = "rotate",
         \A p \in Op, u \in Node : srv'[p][u] = srv[p][u] \/ srv'[p][u].pc = "idle"
  PROVE  TokenInv' /\ NoneCleared
  <1>1. Shape'
    BY DEF Shape, SrvShape
  <1>2. OpTokens'
    BY DEF TokenInv, OpTokens
  <1>3. SrvTokens'
    <2> SUFFICES ASSUME NEW p \in Op, NEW t \in Node, srv'[p][t] = srv[p][t],
                        srv[p][t].pc # "idle"
                 PROVE  (/\ srv[p][t].pc # "idle" => op[p].pc # "none"
                         /\ srv[p][t].pc \in {"tokenload", "tokensave"} =>
                              op[p].req.action \in {"insert", "rotate"}
                         /\ srv[p][t].pc \in {"resetload", "resetsave"} =>
                              op[p].req.action \in {"insert", "reset"}
                         /\ srv[p][t].pc \in {"insertload", "insertsave"} =>
                              op[p].req.action = "insert"
                         /\ srv[p][t].pc \in {"resetload", "resetsave", "removeload",
                                              "removelines", "removesave"} =>
                              file[t].token # NoToken
                         /\ srv[p][t].pc \in {"resetsave", "removelines", "removesave"} =>
                              srv[p][t].loaded.token # NoToken)'
      BY DEF SrvTokens
    <2>1. op[p].pc # "none" /\ op'[p].pc # "none" /\ op'[p].req = op[p].req
      BY DEF TokenInv, SrvTokens
    <2>2. file[t].token # NoToken => file'[t].token # NoToken
      BY DEF NoneCleared
    <2> QED
      BY <2>1, <2>2 DEF TokenInv, SrvTokens
  <1> QED
    BY <1>1, <1>2, <1>3 DEF TokenInv

\* The steps of the handler that received a request.
LEMMA RequestTokens ==
  ASSUME TokenInv, NEW o \in Op,
         \/ \E n \in Entry, r \in Request : ApplyClusterConfig(o, n, r) \/ RotateInternalToken(o, n, r)
         \/ Coordinate(o)
  PROVE  TokenInv' /\ NoneCleared
  <1>1. ASSUME NEW n \in Entry, NEW r \in Request, ApplyClusterConfig(o, n, r)
        PROVE  TokenInv' /\ NoneCleared
    <2> DEFINE save == r.action = "insert" /\ (r.token # NoToken \/ file[n].token = NoToken)
               token == InsertToken(o, file[n], r)
    <2>1. r.action = "insert" => token # NoToken
      BY TokenAssumption DEF InsertToken
    <2> DEFINE body == [r EXCEPT !.hosts = SentHosts(file[n].cfg, r), !.token = token,
                                 !.type = RequestType(file[n].cfg, r)]
               targets == ClusterTargets(file[n].cfg, body, n)
               new == [IdleOp EXCEPT !.pc = IF save THEN "token" ELSE "send", !.at = n,
                                     !.req = body, !.loaded = IF save THEN file[n] ELSE NoFile,
                                     !.old = token, !.todo = targets, !.targets = targets]
    <2>2. Enter(o, new)
      BY <1>1, Zenon DEF ApplyClusterConfig
    <2>3. /\ DOMAIN new = OpFields
          /\ new.pc = IF save THEN "token" ELSE "send"
          /\ new.old = token /\ new.req = body
      BY DEF IdleOp, OpFields
    <2>4. body.token = token /\ body.action = r.action
      BY RequestAssumption DEF NoRequest
    <2>5. op[o].pc = "none" /\ r.action # "rotate" /\ UNCHANGED <<file, srv>>
      BY <1>1, Zenon DEF ApplyClusterConfig
    <2> HIDE DEF token, body, targets, new
    <2>6. save => r.action = "insert"
      OBVIOUS
    <2> HIDE DEF save
    <2> QED
      BY <2>1, <2>2, <2>3, <2>4, <2>5, <2>6, EnterTokens
  <1>2. ASSUME NEW n \in Entry, NEW r \in Request, RotateInternalToken(o, n, r)
        PROVE  TokenInv' /\ NoneCleared
    <2> DEFINE f == file[n]
               targets == {<<"cube", h.name>> : h \in ToSet(f.cfg.hosts)} \ {n}
               old == IF f.token = NoToken THEN NewToken(o, "ensured") ELSE f.token
               body == [r EXCEPT !.hosts = f.cfg.hosts, !.token = NewToken(o, "rotated")]
               new == [IdleOp EXCEPT !.pc = IF f.token = NoToken THEN "token" ELSE "send",
                                     !.at = n, !.loaded = IF f.token = NoToken THEN f ELSE NoFile,
                                     !.old = old, !.req = body,
                                     !.todo = targets, !.targets = targets]
    <2>1. Enter(o, new)
      BY <1>2, Zenon DEF RotateInternalToken
    <2>2. /\ DOMAIN new = OpFields
          /\ new.pc \in {"token", "send"}
          /\ new.old = old /\ new.req = body
      BY DEF IdleOp, OpFields
    <2>3. body.token # NoToken /\ old # NoToken
      BY TokenAssumption, RequestAssumption DEF NoRequest
    <2>4. op[o].pc = "none" /\ UNCHANGED <<file, srv>>
      BY <1>2, Zenon DEF RotateInternalToken
    <2> HIDE DEF old, body, new
    <2> QED
      BY <2>1, <2>2, <2>3, <2>4, EnterTokens
  <1>3. CASE SaveEnsuredToken(o)
    <2>1. /\ DOMAIN op' = Op /\ \A p \in Op : DOMAIN op'[p] = OpFields
          /\ \A p \in Op : op'[p].req = op[p].req /\ op'[p].old = op[p].old
          /\ \A p \in Op : \/ op'[p].pc = op[p].pc
                          \/ /\ op[p].pc # "none" /\ op'[p].pc \notin {"none", "token"}
                             /\ op'[p].pc \in {"setload", "setsave"} => op[p].req.action = "rotate"
      BY <1>3 DEF SaveEnsuredToken, TokenInv, Shape, OpFields, OpTokens
    <2>2. SrvShape' /\ \A p \in Op, u \in Node : srv'[p][u] = srv[p][u]
      BY <1>3 DEF SaveEnsuredToken, TokenInv, Shape, SrvShape
    <2>3. NoneCleared /\ DOMAIN file' = Node
      BY <1>3 DEF SaveEnsuredToken, TokenInv, Shape, NoneCleared, OpTokens
    <2> QED
      BY <2>1, <2>2, <2>3, TokensKept
  <1>4. CASE CallTimeout(o)
    <2>1. /\ DOMAIN op' = Op /\ \A p \in Op : DOMAIN op'[p] = OpFields
          /\ \A p \in Op : op'[p].req = op[p].req /\ op'[p].old = op[p].old
          /\ \A p \in Op : \/ op'[p].pc = op[p].pc
                          \/ /\ op[p].pc # "none" /\ op'[p].pc \notin {"none", "token"}
                             /\ op'[p].pc \in {"setload", "setsave"} => op[p].req.action = "rotate"
      BY <1>4 DEF CallTimeout, TokenInv, Shape, OpFields, OpTokens
    <2>2. SrvShape' /\ \A p \in Op, u \in Node : srv'[p][u] = srv[p][u]
      BY <1>4 DEF CallTimeout, TokenInv, Shape, SrvShape
    <2>3. NoneCleared /\ DOMAIN file' = Node
      BY <1>4 DEF CallTimeout, TokenInv, Shape, NoneCleared, OpTokens
    <2> QED
      BY <2>1, <2>2, <2>3, TokensKept
  <1>5. CASE CallReturns(o)
    <2>1. /\ DOMAIN op' = Op /\ \A p \in Op : DOMAIN op'[p] = OpFields
          /\ \A p \in Op : op'[p].req = op[p].req /\ op'[p].old = op[p].old
          /\ \A p \in Op : \/ op'[p].pc = op[p].pc
                          \/ /\ op[p].pc # "none" /\ op'[p].pc \notin {"none", "token"}
                             /\ op'[p].pc \in {"setload", "setsave"} => op[p].req.action = "rotate"
      BY <1>5 DEF CallReturns, TokenInv, Shape, OpFields, OpTokens
    <2>2. /\ SrvShape'
          /\ \A p \in Op, u \in Node : srv'[p][u] = srv[p][u] \/ srv'[p][u].pc = "idle"
      <3>1. PICK t : srv' = [srv EXCEPT ![o][t] = IdleSrv]
        BY <1>5 DEF CallReturns
      <3>2. DOMAIN IdleSrv = SrvFields /\ IdleSrv.pc = "idle"
        BY DEF IdleSrv, SrvFields
      <3> QED
        BY <3>1, <3>2 DEF TokenInv, Shape, SrvShape
    <2>3. NoneCleared /\ DOMAIN file' = Node
      BY <1>5 DEF CallReturns, TokenInv, Shape, NoneCleared
    <2> QED
      BY <2>1, <2>2, <2>3, TokensKept
  <1>6. CASE AllCalled(o)
    <2>1. /\ DOMAIN op' = Op /\ \A p \in Op : DOMAIN op'[p] = OpFields
          /\ \A p \in Op : op'[p].req = op[p].req /\ op'[p].old = op[p].old
          /\ \A p \in Op : \/ op'[p].pc = op[p].pc
                          \/ /\ op[p].pc # "none" /\ op'[p].pc \notin {"none", "token"}
                             /\ op'[p].pc \in {"setload", "setsave"} => op[p].req.action = "rotate"
      BY <1>6 DEF AllCalled, TokenInv, Shape, OpFields, OpTokens
    <2>2. SrvShape' /\ \A p \in Op, u \in Node : srv'[p][u] = srv[p][u]
      BY <1>6 DEF AllCalled, TokenInv, Shape, SrvShape
    <2>3. NoneCleared /\ DOMAIN file' = Node
      BY <1>6 DEF AllCalled, TokenInv, Shape, NoneCleared, OpTokens
    <2> QED
      BY <2>1, <2>2, <2>3, TokensKept
  <1>7. CASE SetOwnLoad(o)
    <2>1. /\ DOMAIN op' = Op /\ \A p \in Op : DOMAIN op'[p] = OpFields
          /\ \A p \in Op : op'[p].req = op[p].req /\ op'[p].old = op[p].old
          /\ \A p \in Op : \/ op'[p].pc = op[p].pc
                          \/ /\ op[p].pc # "none" /\ op'[p].pc \notin {"none", "token"}
                             /\ op'[p].pc \in {"setload", "setsave"} => op[p].req.action = "rotate"
      BY <1>7 DEF SetOwnLoad, TokenInv, Shape, OpFields, OpTokens
    <2>2. SrvShape' /\ \A p \in Op, u \in Node : srv'[p][u] = srv[p][u]
      BY <1>7 DEF SetOwnLoad, TokenInv, Shape, SrvShape
    <2>3. NoneCleared /\ DOMAIN file' = Node
      BY <1>7 DEF SetOwnLoad, TokenInv, Shape, NoneCleared, OpTokens
    <2> QED
      BY <2>1, <2>2, <2>3, TokensKept
  <1>8. CASE SetOwnSave(o)
    <2>1. /\ DOMAIN op' = Op /\ \A p \in Op : DOMAIN op'[p] = OpFields
          /\ \A p \in Op : op'[p].req = op[p].req /\ op'[p].old = op[p].old
          /\ \A p \in Op : \/ op'[p].pc = op[p].pc
                          \/ /\ op[p].pc # "none" /\ op'[p].pc \notin {"none", "token"}
                             /\ op'[p].pc \in {"setload", "setsave"} => op[p].req.action = "rotate"
      BY <1>8 DEF SetOwnSave, TokenInv, Shape, OpFields, OpTokens
    <2>2. SrvShape' /\ \A p \in Op, u \in Node : srv'[p][u] = srv[p][u]
      BY <1>8 DEF SetOwnSave, TokenInv, Shape, SrvShape
    <2>3. NoneCleared /\ DOMAIN file' = Node
      BY <1>8 DEF SetOwnSave, TokenInv, Shape, NoneCleared, OpTokens
    <2> QED
      BY <2>1, <2>2, <2>3, TokensKept
  <1>9. ASSUME NEW t \in Node, Call(o, t) PROVE TokenInv' /\ NoneCleared
    <2>1. PICK c : /\ srv' = [srv EXCEPT ![o][t] = c]
                   /\ DOMAIN c = SrvFields /\ c.pc = "middleware"
      <3>1. PICK header : /\ header = (IF op[o].req.action = "rotate" THEN op[o].old
                                       ELSE file[op[o].at].token)
                          /\ srv' = [srv EXCEPT ![o][t] =
                                         [IdleSrv EXCEPT !.pc = "middleware", !.header = header]]
        BY <1>9 DEF Call
      <3>2. PICK c : c = [IdleSrv EXCEPT !.pc = "middleware", !.header = header]
        OBVIOUS
      <3>3. DOMAIN c = SrvFields /\ c.pc = "middleware"
        BY <3>2 DEF IdleSrv, SrvFields
      <3> QED
        BY <3>1, <3>2, <3>3
    <2>2. /\ DOMAIN op' = Op /\ \A p \in Op : DOMAIN op'[p] = OpFields
          /\ \A p \in Op : op'[p].req = op[p].req /\ op'[p].old = op[p].old
          /\ \A p \in Op : op'[p].pc = op[p].pc \/ (op[p].pc = "send" /\ op'[p].pc = "wait")
          /\ op[o].pc = "send" /\ file' = file
      BY <1>9 DEF Call, MayCall, TokenInv, Shape, OpFields
    <2>3. /\ DOMAIN srv' = Op /\ \A p \in Op : DOMAIN srv'[p] = Node
          /\ \A p \in Op, u \in Node : IF p = o /\ u = t THEN srv'[p][u] = c ELSE srv'[p][u] = srv[p][u]
      BY <2>1 DEF TokenInv, Shape
    <2>4. Shape'
      BY <2>1, <2>2, <2>3 DEF TokenInv, Shape
    <2>5. OpTokens' /\ NoneCleared
      BY <2>2 DEF TokenInv, OpTokens, NoneCleared
    <2>6. SrvTokens'
      <3> SUFFICES ASSUME NEW p \in Op, NEW u \in Node
                   PROVE  (/\ srv[p][u].pc # "idle" => op[p].pc # "none"
                           /\ srv[p][u].pc \in {"tokenload", "tokensave"} =>
                                op[p].req.action \in {"insert", "rotate"}
                           /\ srv[p][u].pc \in {"resetload", "resetsave"} =>
                                op[p].req.action \in {"insert", "reset"}
                           /\ srv[p][u].pc \in {"insertload", "insertsave"} =>
                                op[p].req.action = "insert"
                           /\ srv[p][u].pc \in {"resetload", "resetsave", "removeload",
                                                "removelines", "removesave"} =>
                                file[u].token # NoToken
                           /\ srv[p][u].pc \in {"resetsave", "removelines", "removesave"} =>
                                srv[p][u].loaded.token # NoToken)'
        BY DEF SrvTokens
      <3>1. op'[p].req = op[p].req /\ (op[p].pc # "none" => op'[p].pc # "none")
        BY <2>2
      <3>2. CASE p = o /\ u = t
        <4>1. srv'[p][u].pc = "middleware" /\ op'[p].pc # "none"
          BY <2>1, <2>2, <2>3, <3>1, <3>2
        <4> QED
          BY <4>1
      <3>3. CASE ~(p = o /\ u = t)
        <4>1. srv'[p][u] = srv[p][u]
          BY <2>3, <3>3
        <4> QED
          BY <2>2, <3>1, <4>1 DEF TokenInv, SrvTokens
      <3> QED
        BY <3>2, <3>3
    <2> QED
      BY <2>4, <2>5, <2>6 DEF TokenInv
  <1>10. ASSUME NEW t \in Node, CallLost(o, t) PROVE TokenInv' /\ NoneCleared
    <2>1. /\ DOMAIN op' = Op /\ \A p \in Op : DOMAIN op'[p] = OpFields
          /\ \A p \in Op : op'[p].req = op[p].req /\ op'[p].old = op[p].old
          /\ \A p \in Op : \/ op'[p].pc = op[p].pc
                          \/ /\ op[p].pc # "none" /\ op'[p].pc \notin {"none", "token"}
                             /\ op'[p].pc \in {"setload", "setsave"} => op[p].req.action = "rotate"
      BY <1>10 DEF CallLost, TokenInv, Shape, OpFields, OpTokens
    <2>2. SrvShape' /\ \A p \in Op, u \in Node : srv'[p][u] = srv[p][u]
      BY <1>10 DEF CallLost, TokenInv, Shape, SrvShape
    <2>3. NoneCleared /\ DOMAIN file' = Node
      BY <1>10 DEF CallLost, TokenInv, Shape, NoneCleared, OpTokens
    <2> QED
      BY <2>1, <2>2, <2>3, TokensKept
  <1>11. QED
    BY <1>1, <1>2, <1>3, <1>4, <1>5, <1>6, <1>7, <1>8, <1>9, <1>10 DEF Coordinate

\* The steps of the handler of a call.
LEMMA ServeTokens ==
  ASSUME TokenInv, NEW o \in Op, NEW t \in Node, Serve(o, t)
  PROVE  TokenInv' /\ NoneCleared
  <1>1. CASE Middleware(o, t)
    <2>1. CASE LetIn(o, t)
      BY <1>1, <2>1, GoToEffect DEF SrvShape, Middleware, At, LetIn,
             TokenInv, Shape, OpTokens, SrvTokens, NoneCleared, OpFields, SrvFields
    <2>2. CASE ~(LetIn(o, t))
      BY <1>1, <2>2, ReplyEffect DEF SrvShape, Middleware, At,
             TokenInv, Shape, OpTokens, SrvTokens, NoneCleared, OpFields, SrvFields
    <2>3. QED BY <2>1, <2>2
  <1>2. CASE SetInternalTokenLoad(o, t)
    BY <1>2, LoadEffect DEF SrvShape, SetInternalTokenLoad, At,
           TokenInv, Shape, OpTokens, SrvTokens, NoneCleared, OpFields, SrvFields
  <1>3. CASE SetInternalTokenSave(o, t)
    <2>1. CASE op[o].req.action = "rotate"
      BY <1>3, <2>1, ReplyEffect DEF SrvShape, SetInternalTokenSave, At, Save,
             TokenInv, Shape, OpTokens, SrvTokens, NoneCleared, OpFields, SrvFields
    <2>2. CASE ~(op[o].req.action = "rotate")
      BY <1>3, <2>2, GoToEffect DEF SrvShape, SetInternalTokenSave, At, Save,
             TokenInv, Shape, OpTokens, SrvTokens, NoneCleared, OpFields, SrvFields
    <2>3. QED BY <2>1, <2>2
  <1>4. CASE ResetLoad(o, t)
    BY <1>4, LoadEffect DEF SrvShape, ResetLoad, At,
           TokenInv, Shape, OpTokens, SrvTokens, NoneCleared, OpFields, SrvFields
  <1>5. CASE ResetSave(o, t)
    <2>1. CASE op[o].req.action = "reset"
      BY <1>5, <2>1, ReplyEffect DEF SrvShape, ResetSave, At, Save,
             TokenInv, Shape, OpTokens, SrvTokens, NoneCleared, OpFields, SrvFields
    <2>2. CASE ~(op[o].req.action = "reset")
      BY <1>5, <2>2, GoToEffect DEF SrvShape, ResetSave, At, Save,
             TokenInv, Shape, OpTokens, SrvTokens, NoneCleared, OpFields, SrvFields
    <2>3. QED BY <2>1, <2>2
  <1>6. CASE InsertLoad(o, t)
    BY <1>6, LoadEffect DEF SrvShape, InsertLoad, At,
           TokenInv, Shape, OpTokens, SrvTokens, NoneCleared, OpFields, SrvFields
  <1>7. CASE InsertSave(o, t)
    BY <1>7, GoToEffect DEF SrvShape, InsertSave, At, Save,
           TokenInv, Shape, OpTokens, SrvTokens, NoneCleared, OpFields, SrvFields
  <1>8. CASE HostsApply(o, t)
    <2>1. CASE op[o].req.action = "insert"
      BY <1>8, <2>1, GoToEffect DEF SrvShape, HostsApply, At,
             TokenInv, Shape, OpTokens, SrvTokens, NoneCleared, OpFields, SrvFields
    <2>2. CASE ~(op[o].req.action = "insert")
      BY <1>8, <2>2, ReplyEffect DEF SrvShape, HostsApply, At,
             TokenInv, Shape, OpTokens, SrvTokens, NoneCleared, OpFields, SrvFields
    <2>3. QED BY <2>1, <2>2
  <1>9. CASE TimeServer(o, t)
    BY <1>9, ReplyEffect DEF SrvShape, TimeServer, At,
           TokenInv, Shape, OpTokens, SrvTokens, NoneCleared, OpFields, SrvFields
  <1>10. CASE RemoveLoad(o, t)
    BY <1>10, LoadEffect DEF SrvShape, RemoveLoad, At,
           TokenInv, Shape, OpTokens, SrvTokens, NoneCleared, OpFields, SrvFields
  <1>11. CASE RemoveLines(o, t)
    <2>1. CASE op[o].req.type \in HCI
      BY <1>11, <2>1, GoToEffect DEF SrvShape, RemoveLines, At,
             TokenInv, Shape, OpTokens, SrvTokens, NoneCleared, OpFields, SrvFields
    <2>2. CASE ~(op[o].req.type \in HCI)
      BY <1>11, <2>2, ReplyEffect DEF SrvShape, RemoveLines, At,
             TokenInv, Shape, OpTokens, SrvTokens, NoneCleared, OpFields, SrvFields
    <2>3. QED BY <2>1, <2>2
  <1>12. CASE RemoveSave(o, t)
    BY <1>12, GoToEffect DEF SrvShape, RemoveSave, At, Save,
           TokenInv, Shape, OpTokens, SrvTokens, NoneCleared, OpFields, SrvFields
  <1>13. CASE LocalFailure(o, t)
    BY <1>13, ReplyEffect DEF SrvShape, LocalFailure,
           TokenInv, Shape, OpTokens, SrvTokens, NoneCleared, OpFields, SrvFields
  <1>14. QED
    BY <1>1, <1>2, <1>3, <1>4, <1>5, <1>6, <1>7, <1>8, <1>9, <1>10, <1>11, <1>12, <1>13 DEF Serve

\* Every step keeps the invariant and clears no token.
LEMMA StepTokens == TokenInv /\ [Next]_vars => TokenInv' /\ [NoneCleared]_file
  <1> SUFFICES ASSUME TokenInv, [Next]_vars PROVE TokenInv' /\ [NoneCleared]_file
    OBVIOUS
  <1>1. CASE Next
    <2>1. PICK o \in Op :
             \/ \/ \E n \in Entry, r \in Request :
                     ApplyClusterConfig(o, n, r) \/ RotateInternalToken(o, n, r)
                \/ Coordinate(o)
             \/ \E t \in Node : Serve(o, t)
      BY <1>1 DEF Next
    <2> QED BY <2>1, RequestTokens, ServeTokens
  <1>2. CASE UNCHANGED vars
    BY <1>2 DEF vars, TokenInv, Shape, OpTokens, SrvTokens
  <1> QED BY <1>1, <1>2

\* The handlers of every interleaving of cluster applies and rotations save a
\* file with a token over a file with a token: a handler that has passed the
\* middleware without the bootstrap exception has loaded one, and an insert has
\* written one before it resets the file.
THEOREM TokenSafe == Spec => TokenNeverCleared
  <1>1. TokenInv /\ [Next]_vars => [\A n \in Node : file[n].token # NoToken =>
                                                  file'[n].token # NoToken]_file
    BY StepTokens DEF NoneCleared
  <1>2. Spec => []TokenInv
    BY InitTokens, StepTokens, PTL DEF Spec
  <1> QED BY <1>1, <1>2, PTL DEF Spec, TokenNeverCleared

-----------------------------------------------------------------------------
(* Requests that are alone                                                  *)

New(o) == NewToken(o, "rotated")

\* No machine and no handler has the token x.
Absent(x) ==
    /\ \A n \in Node : file[n].token # x
    /\ \A p \in Op : op[p].old # x /\ op[p].req.token # x
    /\ \A p \in Op, t \in Node : srv[p][t].loaded.token # x

\* Before a rotation begins nobody has its token.
Unused == \A o \in Op : op[o].pc = "none" \/ op[o].req.action # "rotate" => Absent(New(o))

\* While a request is alone no other one can move.
Quiet == \A o \in Op : op[o].alone => op[o].pc # "none" /\ \A q \in Op \ {o} : ~Active(q)

\* The steps of the calls of an insert and of a rotation.
Steps(action) ==
    {"idle", "middleware", "tokenload", "tokensave", "reply"} \cup
    IF action = "insert"
    THEN {"resetload", "resetsave", "insertload", "insertsave", "hosts", "time"} ELSE {}

\* What an insert makes of cluster.json, and a rotation of its token.
Final(r) == [cfg |-> InsertInto(NoConfig, r), token |-> r.token]
Reached(o, t) ==
    IF op[o].req.action = "insert" THEN file[t] = Final(op[o].req)
    ELSE file[t].token = op[o].req.token

\* The call of o to t: what it has done to the file of t.
Served(o, t) ==
    /\ srv[o][t].pc \in Steps(op[o].req.action)
    /\ srv[o][t].pc # "idle" =>
          /\ t \in op[o].targets \ op[o].todo
          /\ op[o].failed \/ (op[o].pc = "wait" /\ t = op[o].cur)
    /\ srv[o][t].pc = "insertload" => file[t].cfg = NoConfig
    /\ srv[o][t].pc = "insertsave" => srv[o][t].loaded.cfg = NoConfig
    /\ srv[o][t].pc \in {"hosts", "time"} => Reached(o, t)
    /\ srv[o][t].pc = "reply" =>
          /\ srv[o][t].code \in {"err", "bad"} \/ Reached(o, t)
          /\ op[o].req.action = "rotate" => srv[o][t].code # "bad"

\* The handler of o: the targets it has called without a failure are as it wants them, and a
\* rotation gets to its own machine last.
Coordinated(o) ==
    /\ op[o].at \in Node /\ op[o].todo \subseteq op[o].targets
    /\ op[o].pc = "token" => op[o].todo = op[o].targets
    /\ op[o].pc = "wait" => op[o].cur \in op[o].targets \ op[o].todo /\ op[o].cur \in Node
    /\ op[o].pc \in {"setload", "setsave", "ok"} => op[o].todo = {} /\ ~op[o].failed
    /\ op[o].pc \in {"setload", "setsave"} => op[o].req.action = "rotate"
    /\ \A t \in op[o].targets \ op[o].todo :
          /\ t \in Node
          /\ \/ op[o].failed \/ op[o].silent
             \/ op[o].pc = "wait" /\ t = op[o].cur
             \/ Reached(o, t)

\* A rotation, in particular.
Rotating(o) == op[o].req.action = "rotate" =>
    /\ ~op[o].silent /\ op[o].at \notin op[o].targets
    /\ op[o].req.token = New(o)
    /\ op[o].pc = "token" => op[o].old # New(o)
    /\ file[op[o].at].token = New(o) => op[o].pc = "ok"

Works(o) == Coordinated(o) /\ Rotating(o) /\ \A t \in Node : Served(o, t)

AloneInv ==
    /\ TokenInv /\ Unused /\ Quiet
    /\ \A o \in Op : op[o].alone /\ op[o].req.action \in {"insert", "rotate"} => Works(o)

-----------------------------------------------------------------------------
(* Tokens come from the requests that make them                             *)

LEMMA NewTokens ==
    /\ \A o \in Op : New(o) # NoToken
    /\ \A o \in Op, p \in Op : NewToken(p, "ensured") # New(o) /\ (p # o => New(p) # New(o))
    /\ \A o \in Op, n \in Node : StartFile[n].token # New(o)
    /\ \A o \in Op, r \in Request : r.token # New(o)
  BY TokenAssumption, FreshAssumption DEF New, NewToken

LEMMA CoordinateAbsent ==
    ASSUME Shape, NEW x, x # NoToken, Absent(x), NEW o \in Op, Coordinate(o)
    PROVE  Absent(x)'
<1>1. CASE SaveEnsuredToken(o)
  <2>1. /\ \A p \in Op : op'[p].old = op[p].old /\ op'[p].req = op[p].req
        /\ srv' = srv
    BY <1>1 DEF SaveEnsuredToken, Shape, OpFields
  <2>2. file' = [file EXCEPT ![op[o].at] = [cfg |-> op[o].loaded.cfg, token |-> op[o].old]]
    BY <1>1 DEF SaveEnsuredToken
  <2>3. \A n \in Node : file'[n] = file[n] \/ file'[n].token = op[o].old
    BY <2>2 DEF Shape
  <2> QED
    BY <2>1, <2>3 DEF Absent
<1>2. CASE CallTimeout(o) \/ AllCalled(o) \/ SetOwnLoad(o)
  <2>1. /\ \A p \in Op : op'[p].old = op[p].old /\ op'[p].req = op[p].req
        /\ srv' = srv /\ file' = file
    BY <1>2 DEF CallTimeout, AllCalled, SetOwnLoad, Shape, OpFields
  <2> QED
    BY <2>1 DEF Absent
<1>3. CASE SetOwnSave(o)
  BY <1>3 DEF SetOwnSave, Shape, Absent, OpFields
<1>4. CASE CallReturns(o)
  <2>1. /\ \A p \in Op : op'[p].old = op[p].old /\ op'[p].req = op[p].req
        /\ file' = file
    BY <1>4 DEF CallReturns, Shape, OpFields
  <2>2. PICK t : srv' = [srv EXCEPT ![o][t] = IdleSrv]
    BY <1>4 DEF CallReturns
  <2>3. IdleSrv.loaded.token = NoToken
    BY DEF IdleSrv, NoFile
  <2>4. \A p \in Op, u \in Node : srv'[p][u] = srv[p][u] \/ srv'[p][u] = IdleSrv
    BY <2>2 DEF Shape
  <2> QED
    BY <2>1, <2>3, <2>4 DEF Absent
<1>5. ASSUME NEW t \in Node, Call(o, t)
      PROVE  Absent(x)'
  BY <1>5 DEF Call, MayCall, IdleSrv, NoFile, Shape, Absent, OpFields
<1>6. ASSUME NEW t \in Node, CallLost(o, t)
      PROVE  Absent(x)'
  BY <1>6 DEF CallLost, Shape, Absent, OpFields
<1> QED
  BY <1>1, <1>2, <1>3, <1>4, <1>5, <1>6 DEF Coordinate

LEMMA ServeAbsent ==
    ASSUME Shape, NEW x, x # NoToken, Absent(x), NEW o \in Op, NEW t \in Node, Serve(o, t)
    PROVE  Absent(x)'
<1>1. /\ op' = op
      /\ \/ file' = file
         \/ \E cfg, token : /\ Save(t, cfg, token)
                            /\ token \in {srv[o][t].loaded.token, op[o].req.token}
      /\ \/ \E pc : GoTo(o, t, pc) \/ Load(o, t, pc)
         \/ \E code : Reply(o, t, code)
  BY DEF Serve, Middleware, SetInternalTokenLoad, SetInternalTokenSave, ResetLoad, ResetSave,
         InsertLoad, InsertSave, HostsApply, TimeServer, RemoveLoad, RemoveLines, RemoveSave,
         LocalFailure
<1>2. \A n \in Node : file'[n].token # x
  BY <1>1 DEF Save, Shape, Absent
<1>3. \A p \in Op, u \in Node : srv'[p][u].loaded.token # x
  <2>1. NoFile.token = NoToken
    BY DEF NoFile
  <2>2. ASSUME NEW pc, GoTo(o, t, pc)
        PROVE  \A p \in Op, u \in Node : srv'[p][u].loaded.token # x
    BY <2>2, GoToEffect DEF Absent
  <2>3. ASSUME NEW pc, Load(o, t, pc)
        PROVE  \A p \in Op, u \in Node : srv'[p][u].loaded.token # x
    BY <2>3, LoadEffect DEF Absent
  <2>4. ASSUME NEW code, Reply(o, t, code)
        PROVE  \A p \in Op, u \in Node : srv'[p][u].loaded.token # x
    BY <2>1, <2>4, ReplyEffect DEF Absent
  <2> QED
    BY <1>1, <2>2, <2>3, <2>4
<1> QED
  BY <1>1, <1>2, <1>3 DEF Absent

\* An insert or a removal that begins has the token of its body, of the file or a new one.
LEMMA ApplyBegins ==
    ASSUME TokenInv, NEW o \in Op, NEW n \in Entry, NEW r \in Request, ApplyClusterConfig(o, n, r)
    PROVE  /\ UNCHANGED <<file, srv>> /\ op[o].pc = "none" /\ n \in Node
           /\ op'[o].req.action = r.action /\ r.action # "rotate"
           /\ op'[o].pc \in {"token", "send"} /\ op'[o].at = n
           /\ op'[o].todo = op'[o].targets /\ ~op'[o].failed /\ ~op'[o].silent
           /\ op'[o].old \in {NoToken, r.token, file[n].token, NewToken(o, "ensured")}
           /\ op'[o].req.token = op'[o].old
           /\ op'[o].alone = (\A q \in Op \ {o} : ~Active(q))
           /\ \A p \in Op \ {o} : /\ ~op'[p].alone /\ op'[p].pc = op[p].pc
                                   /\ op'[p].req = op[p].req /\ op'[p].old = op[p].old
<1> DEFINE save == r.action = "insert" /\ (r.token # NoToken \/ file[n].token = NoToken)
           token == InsertToken(o, file[n], r)
           body == [r EXCEPT !.hosts = SentHosts(file[n].cfg, r), !.token = token,
                             !.type = RequestType(file[n].cfg, r)]
           targets == ClusterTargets(file[n].cfg, body, n)
           new == [IdleOp EXCEPT !.pc = IF save THEN "token" ELSE "send", !.at = n,
                                 !.req = body, !.loaded = IF save THEN file[n] ELSE NoFile,
                                 !.old = token, !.todo = targets, !.targets = targets]
<1>1. Enter(o, new)
  BY Zenon DEF ApplyClusterConfig
<1>2. /\ DOMAIN new = OpFields
      /\ new.pc \in {"token", "send"} /\ new.at = n /\ new.todo = new.targets
      /\ new.old = token /\ new.req = body /\ new.failed = FALSE /\ new.silent = FALSE
  BY DEF IdleOp, OpFields
<1>3. body.token = token /\ body.action = r.action
  BY RequestAssumption DEF NoRequest
<1>4. token \in {NoToken, r.token, file[n].token, NewToken(o, "ensured")}
  BY DEF InsertToken
<1>5. op[o].pc = "none" /\ r.action # "rotate" /\ UNCHANGED <<file, srv>> /\ n \in Node
  BY StartAssumption, Zenon DEF ApplyClusterConfig, Node
<1>6. Shape
  BY DEF TokenInv
<1> HIDE DEF token, body, targets, save, new
<1> QED
  BY <1>1, <1>2, <1>3, <1>4, <1>5, <1>6, EnterEffect, EnterAlone

LEMMA RotationBegins ==
    ASSUME TokenInv, NEW o \in Op, NEW n \in Entry, NEW r \in Request, RotateInternalToken(o, n, r)
    PROVE  /\ UNCHANGED <<file, srv>> /\ op[o].pc = "none" /\ n \in Node
           /\ op'[o].req.action = "rotate" /\ op'[o].req.token = New(o)
           /\ op'[o].pc \in {"token", "send"} /\ op'[o].at = n
           /\ op'[o].todo = op'[o].targets /\ n \notin op'[o].targets
           /\ ~op'[o].failed /\ ~op'[o].silent
           /\ op'[o].old \in {file[n].token, NewToken(o, "ensured")}
           /\ op'[o].alone = (\A q \in Op \ {o} : ~Active(q))
           /\ \A p \in Op \ {o} : /\ ~op'[p].alone /\ op'[p].pc = op[p].pc
                                   /\ op'[p].req = op[p].req /\ op'[p].old = op[p].old
<1> DEFINE f == file[n]
           targets == {<<"cube", h.name>> : h \in ToSet(f.cfg.hosts)} \ {n}
           old == IF f.token = NoToken THEN NewToken(o, "ensured") ELSE f.token
           body == [r EXCEPT !.hosts = f.cfg.hosts, !.token = NewToken(o, "rotated")]
           new == [IdleOp EXCEPT !.pc = IF f.token = NoToken THEN "token" ELSE "send",
                                 !.at = n, !.loaded = IF f.token = NoToken THEN f ELSE NoFile,
                                 !.old = old, !.req = body,
                                 !.todo = targets, !.targets = targets]
<1>1. Enter(o, new)
  BY Zenon DEF RotateInternalToken
<1>2. /\ DOMAIN new = OpFields
      /\ new.pc \in {"token", "send"} /\ new.at = n /\ new.todo = targets /\ new.targets = targets
      /\ new.old = old /\ new.req = body /\ new.failed = FALSE /\ new.silent = FALSE
  BY DEF IdleOp, OpFields
<1>3. body.token = New(o) /\ body.action = r.action
  BY RequestAssumption DEF NoRequest, New
<1>4. old \in {file[n].token, NewToken(o, "ensured")} /\ n \notin targets
  OBVIOUS
<1>5. op[o].pc = "none" /\ r.action = "rotate" /\ UNCHANGED <<file, srv>> /\ n \in Node
  BY StartAssumption, Zenon DEF RotateInternalToken, Node
<1>6. Shape
  BY DEF TokenInv
<1> HIDE DEF f, old, body, targets, new
<1>7. /\ op'[o].pc = new.pc /\ op'[o].req = new.req /\ op'[o].old = new.old
      /\ \A p \in Op \ {o} : /\ op'[p].pc = op[p].pc
                              /\ op'[p].req = op[p].req /\ op'[p].old = op[p].old
  BY <1>1, <1>2, <1>6, EnterEffect
<1>8. /\ op'[o].at = new.at /\ op'[o].todo = new.todo /\ op'[o].targets = new.targets
      /\ op'[o].failed = new.failed /\ op'[o].silent = new.silent
      /\ op'[o].alone = (\A q \in Op \ {o} : ~Active(q))
      /\ \A p \in Op \ {o} : ~op'[p].alone
  BY <1>1, <1>2, <1>6, EnterAlone
<1> QED
  BY <1>2, <1>3, <1>4, <1>5, <1>7, <1>8

-----------------------------------------------------------------------------
(* The calls of a request that is alone                                     *)

\* Only the file and the call of t have changed, and the call is at a step of its own.
LEMMA ServedKeeps ==
    ASSUME Shape, NEW o \in Op, Works(o), NEW t \in Node, op' = op,
           \A u \in Node \ {t} : srv'[o][u] = srv[o][u] /\ file'[u] = file[u],
           srv[o][t].pc \notin {"idle", "reply"},
           Served(o, t)'
    PROVE  Works(o)'
<1>1. t \in op[o].targets \ op[o].todo /\ (op[o].failed \/ (op[o].pc = "wait" /\ t = op[o].cur))
  BY DEF Works, Served
<1>2. \A u \in Node : Served(o, u)'
  <2> SUFFICES ASSUME NEW u \in Node \ {t}
               PROVE  Served(o, u)'
    OBVIOUS
  <2> QED
    BY DEF Works, Served, Reached
<1>3. Coordinated(o)'
  <2>1. \A u \in op[o].targets \ op[o].todo :
          /\ u \in Node
          /\ \/ op[o].failed \/ op[o].silent
             \/ op[o].pc = "wait" /\ u = op[o].cur
             \/ Reached(o, u)'
    BY <1>1 DEF Works, Coordinated, Reached
  <2> QED
    BY <2>1 DEF Works, Coordinated
<1>4. Rotating(o)'
  BY <1>1 DEF Works, Rotating, Coordinated
<1> QED
  BY <1>2, <1>3, <1>4 DEF Works

LEMMA ServeWorks ==
    ASSUME Shape, NEW o \in Op, op[o].req.action \in {"insert", "rotate"}, Works(o),
           NEW t \in Node, Serve(o, t)
    PROVE  Works(o)'
<1>1. /\ op' = op /\ srv[o][t].pc \notin {"idle", "reply"}
      /\ file' = file \/ \E cfg, token : Save(t, cfg, token)
      /\ \/ \E pc : GoTo(o, t, pc) \/ Load(o, t, pc)
         \/ \E code : Reply(o, t, code)
  BY DEF Serve, Middleware, SetInternalTokenLoad, SetInternalTokenSave, ResetLoad, ResetSave,
         InsertLoad, InsertSave, HostsApply, TimeServer, RemoveLoad, RemoveLines, RemoveSave,
         LocalFailure, At
<1>2. \A u \in Node \ {t} : srv'[o][u] = srv[o][u] /\ file'[u] = file[u]
  <2>1. \A u \in Node \ {t} : srv'[o][u] = srv[o][u]
    BY <1>1, GoToEffect, LoadEffect, ReplyEffect
  <2>2. \A u \in Node \ {t} : file'[u] = file[u]
    BY <1>1 DEF Save, Shape
  <2> QED
    BY <2>1, <2>2
<1>3. /\ srv[o][t].pc \in Steps(op[o].req.action)
      /\ t \in op[o].targets \ op[o].todo
      /\ op[o].failed \/ (op[o].pc = "wait" /\ t = op[o].cur)
  BY <1>1 DEF Works, Served
<1>4. ASSUME NEW cfg, NEW token, Save(t, cfg, token)
      PROVE  file'[t] = [cfg |-> cfg, token |-> token]
  BY <1>4 DEF Save, Shape
\* Where the call is, the rest of the claim follows.
<1>5. ASSUME srv'[o][t].pc \in Steps(op[o].req.action),
             srv'[o][t].pc = "insertload" => file'[t].cfg = NoConfig,
             srv'[o][t].pc = "insertsave" => srv'[o][t].loaded.cfg = NoConfig,
             srv'[o][t].pc \in {"hosts", "time"} => Reached(o, t)',
             srv'[o][t].pc = "reply" =>
                /\ srv'[o][t].code \in {"err", "bad"} \/ Reached(o, t)'
                /\ op[o].req.action = "rotate" => srv'[o][t].code # "bad"
      PROVE  Works(o)'
  <2>1. Served(o, t)'
    BY <1>1, <1>3, <1>5 DEF Served
  <2> QED
    BY <1>1, <1>2, <2>1, ServedKeeps
<1>6. CASE Middleware(o, t)
  <2>1. CASE LetIn(o, t)
    BY <1>5, <1>6, <2>1, GoToEffect DEF Middleware, Steps
  <2>2. CASE ~LetIn(o, t)
    BY <1>5, <1>6, <2>2, ReplyEffect DEF Middleware, Steps
  <2> QED
    BY <2>1, <2>2
<1>7. CASE SetInternalTokenLoad(o, t)
  BY <1>5, <1>7, LoadEffect DEF SetInternalTokenLoad, Steps
<1>8. CASE SetInternalTokenSave(o, t)
  <2>1. file'[t].token = op[o].req.token
    <3>1. PICK c, k : c = srv[o][t].loaded.cfg /\ k = op[o].req.token
      OBVIOUS
    <3>2. Save(t, c, k)
      BY <1>8, <3>1 DEF SetInternalTokenSave
    <3>3. file'[t] = [cfg |-> c, token |-> k]
      BY <1>4, <3>2
    <3> QED
      BY <3>1, <3>3
  <2>2. CASE op[o].req.action = "rotate"
    <3>1. srv'[o][t].pc = "reply" /\ srv'[o][t].code = "ok"
      BY <1>8, <2>2, ReplyEffect DEF SetInternalTokenSave
    <3> QED
      BY <1>1, <1>5, <2>1, <2>2, <3>1 DEF Steps, Reached
  <2>3. CASE op[o].req.action = "insert"
    BY <1>5, <1>8, <2>3, GoToEffect DEF SetInternalTokenSave, Steps
  <2> QED
    BY <2>2, <2>3
<1>9. ASSUME op[o].req.action = "rotate"
      PROVE  srv[o][t].pc \in {"middleware", "tokenload", "tokensave"}
  BY <1>1, <1>3, <1>9 DEF Steps
<1>10. CASE ResetLoad(o, t) \/ ResetSave(o, t) \/ InsertLoad(o, t) \/ InsertSave(o, t)
           \/ HostsApply(o, t) \/ TimeServer(o, t)
  <2>1. op[o].req.action = "insert"
    BY <1>9, <1>10 DEF ResetLoad, ResetSave, InsertLoad, InsertSave, HostsApply, TimeServer, At
  <2>2. CASE ResetLoad(o, t)
    BY <1>5, <2>1, <2>2, LoadEffect DEF ResetLoad, Steps
  <2>3. CASE ResetSave(o, t)
    <3>1. file'[t].cfg = NoConfig
      <4>1. PICK k : k = srv[o][t].loaded.token
        OBVIOUS
      <4>2. Save(t, NoConfig, k)
        BY <2>3, <4>1 DEF ResetSave
      <4>3. file'[t] = [cfg |-> NoConfig, token |-> k]
        BY <1>4, <4>2
      <4> QED
        BY <4>3
    <3>2. srv'[o][t].pc = "insertload"
      BY <2>1, <2>3, GoToEffect DEF ResetSave
    <3> QED
      BY <1>5, <2>1, <3>1, <3>2 DEF Steps
  <2>4. CASE InsertLoad(o, t)
    <3>1. file[t].cfg = NoConfig
      BY <2>4 DEF InsertLoad, At, Works, Served
    <3>2. srv'[o][t].pc = "insertsave" /\ srv'[o][t].loaded = file[t]
      BY <2>4, LoadEffect DEF InsertLoad
    <3> QED
      BY <1>5, <2>1, <3>1, <3>2 DEF Steps
  <2>5. CASE InsertSave(o, t)
    <3>1. srv[o][t].loaded.cfg = NoConfig
      BY <2>5 DEF InsertSave, At, Works, Served
    <3>2. file'[t] = Final(op[o].req)
      BY <1>4, <2>5, <3>1 DEF InsertSave, Final
    <3>3. Reached(o, t)'
      BY <1>1, <2>1, <3>2 DEF Reached, Final
    <3>4. srv'[o][t].pc = "hosts"
      BY <2>5, GoToEffect DEF InsertSave
    <3> QED
      BY <1>5, <2>1, <3>3, <3>4 DEF Steps
  <2>6. CASE HostsApply(o, t)
    <3>1. Reached(o, t)'
      BY <1>1, <2>6 DEF HostsApply, At, Works, Served, Reached
    <3>2. srv'[o][t].pc = "time"
      BY <2>1, <2>6, GoToEffect DEF HostsApply
    <3> QED
      BY <1>5, <2>1, <3>1, <3>2 DEF Steps
  <2>7. CASE TimeServer(o, t)
    <3>1. Reached(o, t)'
      BY <1>1, <2>7 DEF TimeServer, At, Works, Served, Reached
    <3>2. srv'[o][t].pc = "reply"
      BY <2>7, ReplyEffect DEF TimeServer
    <3> QED
      BY <1>5, <2>1, <3>1, <3>2 DEF Steps
  <2> QED
    BY <1>10, <2>2, <2>3, <2>4, <2>5, <2>6, <2>7
<1>11. ~RemoveLoad(o, t) /\ ~RemoveLines(o, t) /\ ~RemoveSave(o, t)
  BY <1>3 DEF Steps, RemoveLoad, RemoveLines, RemoveSave, At
<1>12. CASE LocalFailure(o, t)
  <2>1. /\ srv'[o][t].pc = "reply" /\ srv'[o][t].code \in {"err", "bad"}
        /\ srv[o][t].pc \in {"tokenload", "tokensave"} => srv'[o][t].code = "err"
        /\ srv[o][t].pc # "middleware"
    BY <1>12, ReplyEffect DEF LocalFailure
  <2> QED
    BY <1>5, <1>9, <2>1 DEF Steps
<1> QED
  BY <1>6, <1>7, <1>8, <1>10, <1>11, <1>12 DEF Serve

LEMMA CoordinateWorks ==
    ASSUME Shape, NEW o \in Op, op[o].req.action \in {"insert", "rotate"}, Works(o), Coordinate(o)
    PROVE  Works(o)'
<1>1. /\ DOMAIN op' = Op /\ DOMAIN op[o] = OpFields
      /\ op'[o].req = op[o].req /\ op'[o].at = op[o].at /\ op'[o].targets = op[o].targets
  <2>1. CASE SaveEnsuredToken(o) \/ CallTimeout(o)
    BY <2>1 DEF SaveEnsuredToken, CallTimeout, Shape, OpFields
  <2>2. CASE CallReturns(o)
    <3>1. PICK b, c : op' = [op EXCEPT ![o].pc = "send", ![o].cur = NoNode, ![o].failed = b,
                                       ![o].silent = c]
      BY <2>2, Zenon DEF CallReturns
    <3> QED
      BY <3>1 DEF Shape, OpFields
  <2>3. CASE AllCalled(o)
    <3>1. PICK pc : op' = [op EXCEPT ![o].pc = pc]
      BY <2>3, Zenon DEF AllCalled
    <3> QED
      BY <3>1 DEF Shape, OpFields
  <2>4. CASE SetOwnLoad(o) \/ SetOwnSave(o)
    BY <2>4 DEF SetOwnLoad, SetOwnSave, Shape, OpFields
  <2>5. ASSUME NEW t \in Node, Call(o, t) \/ CallLost(o, t)
        PROVE  /\ DOMAIN op' = Op /\ DOMAIN op[o] = OpFields
               /\ op'[o].req = op[o].req /\ op'[o].at = op[o].at
               /\ op'[o].targets = op[o].targets
    BY <2>5 DEF Call, CallLost, Shape, OpFields
  <2> QED
    BY <2>1, <2>2, <2>3, <2>4, <2>5 DEF Coordinate
<1>2. CASE SaveEnsuredToken(o)
  <2>1. /\ op'[o].pc \in {"send", "failed"} /\ op'[o].todo = op[o].todo
        /\ op'[o].failed = op[o].failed /\ op'[o].silent = op[o].silent
        /\ srv' = srv /\ op[o].pc = "token"
    BY <1>2 DEF SaveEnsuredToken, Shape, OpFields
  <2>2. op[o].todo = op[o].targets /\ \A t \in Node : srv[o][t].pc = "idle"
    BY <2>1 DEF Works, Coordinated, Served
  <2>3. op[o].req.action = "rotate" => file'[op[o].at].token # New(o)
    <3>1. file'[op[o].at].token = op[o].old
      BY <1>2 DEF SaveEnsuredToken, Shape, Works, Coordinated
    <3> QED
      BY <2>1, <3>1 DEF Works, Rotating
  <2>4. Coordinated(o)'
    BY <1>1, <2>1, <2>2 DEF Works, Coordinated
  <2>5. Rotating(o)'
    BY <1>1, <2>1, <2>3 DEF Works, Rotating
  <2>6. \A t \in Node : Served(o, t)'
    BY <1>1, <2>1, <2>2 DEF Served, Steps
  <2> QED
    BY <2>4, <2>5, <2>6 DEF Works
<1>3. CASE CallTimeout(o)
  <2>1. /\ op'[o].pc = "send" /\ op'[o].todo = op[o].todo
        /\ op'[o].failed /\ op'[o].silent = op[o].silent
        /\ srv' = srv /\ file' = file /\ op[o].pc = "wait"
    BY <1>3 DEF CallTimeout, Shape, OpFields
  <2>2. Coordinated(o)'
    BY <1>1, <2>1 DEF Works, Coordinated
  <2>3. Rotating(o)'
    BY <1>1, <2>1 DEF Works, Rotating
  <2>4. \A t \in Node : Served(o, t)'
    BY <1>1, <2>1 DEF Works, Served, Reached
  <2> QED
    BY <2>2, <2>3, <2>4 DEF Works
<1>4. CASE CallReturns(o)
  <2>1. PICK c : c = op[o].cur
    OBVIOUS
  <2>2. /\ op'[o].pc = "send" /\ op'[o].todo = op[o].todo
        /\ op'[o].failed = (op[o].failed \/ srv[o][c].code = "err")
        /\ op'[o].silent = (op[o].silent \/ srv[o][c].code = "bad")
        /\ srv[o][c].pc = "reply"
        /\ file' = file /\ op[o].pc = "wait"
    BY <1>4, <2>1 DEF CallReturns, Shape, OpFields
  <2>3. c \in op[o].targets \ op[o].todo /\ c \in Node
    BY <2>1, <2>2 DEF Works, Coordinated
  <2>4. srv'[o][c].pc = "idle" /\ \A t \in Node \ {c} : srv'[o][t] = srv[o][t]
    <3>1. srv' = [srv EXCEPT ![o][c] = IdleSrv] /\ IdleSrv.pc = "idle"
      BY <1>4, <2>1 DEF CallReturns, IdleSrv
    <3> QED
      BY <2>3, <3>1 DEF Shape
  <2>5. \/ srv[o][c].code = "err" \/ Reached(o, c)
        \/ srv[o][c].code = "bad" /\ op[o].req.action = "insert"
    BY <2>2, <2>3 DEF Works, Served
  <2>6. Coordinated(o)'
    <3>1. \A t \in op[o].targets \ op[o].todo :
            t \in Node /\ (op'[o].failed \/ op'[o].silent \/ Reached(o, t)')
      BY <1>1, <2>1, <2>2, <2>5 DEF Works, Coordinated, Reached
    <3> QED
      BY <1>1, <2>2, <3>1 DEF Works, Coordinated
  <2>7. Rotating(o)'
    BY <1>1, <2>2, <2>3 DEF Works, Rotating, Served
  <2>8. \A t \in Node : Served(o, t)'
    <3> SUFFICES ASSUME NEW t \in Node
                 PROVE  Served(o, t)'
      OBVIOUS
    <3>1. CASE t = c
      <4>1. srv'[o][t].pc = "idle"
        BY <2>4, <3>1
      <4>2. "idle" \in Steps(op'[o].req.action)
        BY DEF Steps
      <4> QED
        BY <4>1, <4>2 DEF Served
    <3>2. CASE t # c
      <4>1. Served(o, t) /\ srv'[o][t] = srv[o][t]
        BY <2>4, <3>2 DEF Works
      <4>2. srv[o][t].pc # "idle" => op'[o].failed
        BY <2>1, <2>2, <3>2, <4>1 DEF Served
      <4>3. Reached(o, t)' = Reached(o, t)
        BY <1>1, <2>2 DEF Reached
      <4> QED
        BY <1>1, <2>2, <4>1, <4>2, <4>3 DEF Served
    <3> QED
      BY <3>1, <3>2
  <2> QED
    BY <2>6, <2>7, <2>8 DEF Works
<1>5. CASE AllCalled(o)
  <2>1. /\ op'[o].todo = {} /\ op[o].todo = {} /\ op[o].pc = "send"
        /\ op'[o].failed = op[o].failed /\ op'[o].silent = op[o].silent
        /\ srv' = srv /\ file' = file
        /\ \/ op'[o].pc = "failed" /\ op[o].failed
           \/ op'[o].pc = "setload" /\ ~op[o].failed /\ op[o].req.action = "rotate"
           \/ op'[o].pc = "ok" /\ ~op[o].failed /\ op[o].req.action # "rotate"
    BY <1>5 DEF AllCalled, Shape, OpFields
  <2>2. Coordinated(o)'
    BY <1>1, <2>1 DEF Works, Coordinated, Reached
  <2>3. Rotating(o)'
    BY <1>1, <2>1 DEF Works, Rotating
  <2>4. \A t \in Node : Served(o, t)'
    BY <1>1, <2>1 DEF Works, Served, Reached
  <2> QED
    BY <2>2, <2>3, <2>4 DEF Works
<1>6. CASE SetOwnLoad(o)
  <2>1. /\ op'[o].todo = op[o].todo /\ op[o].pc = "setload" /\ op'[o].pc = "setsave"
        /\ op'[o].failed = op[o].failed /\ op'[o].silent = op[o].silent
        /\ srv' = srv /\ file' = file
    BY <1>6 DEF SetOwnLoad, Shape, OpFields
  <2>2. Coordinated(o)'
    BY <1>1, <2>1 DEF Works, Coordinated, Reached
  <2>3. Rotating(o)'
    BY <1>1, <2>1 DEF Works, Rotating
  <2>4. \A t \in Node : Served(o, t)'
    BY <1>1, <2>1 DEF Works, Served, Reached
  <2> QED
    BY <2>2, <2>3, <2>4 DEF Works
<1>7. CASE SetOwnSave(o)
  <2>1. /\ op'[o].todo = op[o].todo /\ op[o].pc = "setsave" /\ op'[o].pc = "ok"
        /\ op'[o].failed = op[o].failed /\ op'[o].silent = op[o].silent
        /\ srv' = srv /\ op[o].req.action = "rotate" /\ op[o].at \notin op[o].targets
    BY <1>7 DEF SetOwnSave, Shape, OpFields, Works, Coordinated, Rotating
  <2>2. \A t \in op[o].targets : t \in Node => file'[t] = file[t]
    BY <1>7, <2>1 DEF SetOwnSave, Shape
  <2>3. Coordinated(o)'
    BY <1>1, <2>1, <2>2 DEF Works, Coordinated, Reached
  <2>4. Rotating(o)'
    BY <1>1, <2>1 DEF Works, Rotating
  <2>5. \A t \in Node : Served(o, t)'
    BY <1>1, <2>1, <2>2 DEF Works, Served, Reached, Steps
  <2> QED
    BY <2>3, <2>4, <2>5 DEF Works
<1>8. ASSUME NEW t \in Node, Call(o, t)
      PROVE  Works(o)'
  <2>1. /\ op'[o].todo = op[o].todo \ {t} /\ t \in op[o].todo
        /\ op[o].pc = "send" /\ op'[o].pc = "wait" /\ op'[o].cur = t
        /\ op'[o].failed = op[o].failed /\ op'[o].silent = op[o].silent /\ file' = file
    BY <1>8 DEF Call, MayCall, Shape, OpFields
  <2>2. srv'[o][t].pc = "middleware" /\ \A u \in Node \ {t} : srv'[o][u] = srv[o][u]
    BY <1>8 DEF Call, Shape, IdleSrv
  <2>3. Coordinated(o)'
    BY <1>1, <1>8, <2>1 DEF Works, Coordinated, Reached
  <2>4. Rotating(o)'
    BY <1>1, <2>1 DEF Works, Rotating
  <2>5. \A u \in Node : Served(o, u)'
    <3> SUFFICES ASSUME NEW u \in Node
                 PROVE  Served(o, u)'
      OBVIOUS
    <3>1. CASE u = t
      BY <1>1, <2>1, <2>2, <3>1 DEF Served, Steps, Works, Coordinated
    <3>2. CASE u # t
      BY <1>1, <2>1, <2>2, <3>2 DEF Works, Served, Reached
    <3> QED
      BY <3>1, <3>2
  <2> QED
    BY <2>3, <2>4, <2>5 DEF Works
<1>9. ASSUME NEW t \in Node, CallLost(o, t)
      PROVE  Works(o)'
  <2>1. /\ op'[o].todo = op[o].todo \ {t} /\ op[o].pc = "send" /\ op'[o].pc = "send"
        /\ op'[o].failed /\ op'[o].silent = op[o].silent
        /\ srv' = srv /\ file' = file
    BY <1>9 DEF CallLost, MayCall, Shape, OpFields
  <2>2. Coordinated(o)'
    BY <1>1, <1>9, <2>1 DEF Works, Coordinated
  <2>3. Rotating(o)'
    BY <1>1, <2>1 DEF Works, Rotating
  <2>4. \A u \in Node : Served(o, u)'
    BY <1>1, <2>1 DEF Works, Served, Reached
  <2> QED
    BY <2>2, <2>3, <2>4 DEF Works
<1> QED
  BY <1>2, <1>3, <1>4, <1>5, <1>6, <1>7, <1>8, <1>9 DEF Coordinate

-----------------------------------------------------------------------------
(* Every step keeps the invariant of the requests that are alone            *)

LEMMA InitAlone == Init => AloneInv
<1> SUFFICES ASSUME Init PROVE AloneInv
  OBVIOUS
<1>1. TokenInv
  BY InitTokens
<1>2. /\ \A p \in Op : op[p] = IdleOp
      /\ \A p \in Op, t \in Node : srv[p][t] = IdleSrv
      /\ \A n \in Node : file[n] = StartFile[n]
  BY DEF Init
<1>3. /\ IdleOp.alone = FALSE /\ IdleOp.old = NoToken /\ IdleOp.req.token = NoToken
      /\ IdleSrv.loaded.token = NoToken
  BY DEF IdleOp, IdleSrv, NoRequest, NoFile
<1>4. \A o \in Op : ~op[o].alone
  BY <1>2, <1>3
<1>5. Unused
  BY <1>2, <1>3, NewTokens DEF Unused, Absent
<1> QED
  BY <1>1, <1>4, <1>5 DEF AloneInv, Quiet

\* What a step of the handler of o changes of the other requests, and of o itself.
LEMMA CoordinateFrame ==
    ASSUME Shape, NEW o \in Op, Coordinate(o)
    PROVE  /\ op[o].pc \notin {"none", "ok", "failed"} /\ op'[o].pc # "none"
           /\ op'[o].req = op[o].req /\ op'[o].alone = op[o].alone
           /\ \A p \in Op \ {o} : op'[p] = op[p] /\ \A t \in Node : srv'[p][t] = srv[p][t]
<1>1. CASE SaveEnsuredToken(o) \/ CallTimeout(o) \/ SetOwnLoad(o) \/ SetOwnSave(o)
  BY <1>1 DEF SaveEnsuredToken, CallTimeout, SetOwnLoad, SetOwnSave, Shape, OpFields
<1>2. CASE CallReturns(o)
  <2>1. PICK b, c, t :
           /\ op' = [op EXCEPT ![o].pc = "send", ![o].cur = NoNode, ![o].failed = b,
                               ![o].silent = c]
           /\ srv' = [srv EXCEPT ![o][t] = IdleSrv]
           /\ op[o].pc = "wait"
    BY <1>2, Zenon DEF CallReturns
  <2> QED
    BY <2>1 DEF Shape, OpFields
<1>3. CASE AllCalled(o)
  <2>1. PICK pc : /\ op' = [op EXCEPT ![o].pc = pc] /\ pc \in {"failed", "setload", "ok"}
                  /\ op[o].pc = "send" /\ srv' = srv
    BY <1>3 DEF AllCalled
  <2> QED
    BY <2>1 DEF Shape, OpFields
<1>4. ASSUME NEW t \in Node, Call(o, t)
      PROVE  /\ op[o].pc \notin {"none", "ok", "failed"} /\ op'[o].pc # "none"
             /\ op'[o].req = op[o].req /\ op'[o].alone = op[o].alone
             /\ \A p \in Op \ {o} : op'[p] = op[p] /\ \A u \in Node : srv'[p][u] = srv[p][u]
  BY <1>4 DEF Call, MayCall, Shape, OpFields
<1>5. ASSUME NEW t \in Node, CallLost(o, t)
      PROVE  /\ op[o].pc \notin {"none", "ok", "failed"} /\ op'[o].pc # "none"
             /\ op'[o].req = op[o].req /\ op'[o].alone = op[o].alone
             /\ \A p \in Op \ {o} : op'[p] = op[p] /\ \A u \in Node : srv'[p][u] = srv[p][u]
  BY <1>5 DEF CallLost, MayCall, Shape, OpFields
<1> QED
  BY <1>1, <1>2, <1>3, <1>4, <1>5 DEF Coordinate

LEMMA ServeFrame ==
    ASSUME Shape, NEW o \in Op, NEW t \in Node, Serve(o, t)
    PROVE  /\ op' = op /\ srv[o][t].pc \notin {"idle", "reply"}
           /\ \A p \in Op \ {o} : \A u \in Node : srv'[p][u] = srv[p][u]
<1>1. /\ op' = op /\ srv[o][t].pc \notin {"idle", "reply"}
      /\ \/ \E pc : GoTo(o, t, pc) \/ Load(o, t, pc)
         \/ \E code : Reply(o, t, code)
  BY DEF Serve, Middleware, SetInternalTokenLoad, SetInternalTokenSave, ResetLoad, ResetSave,
         InsertLoad, InsertSave, HostsApply, TimeServer, RemoveLoad, RemoveLines, RemoveSave,
         LocalFailure, At
<1> QED
  BY <1>1, GoToEffect, LoadEffect, ReplyEffect

\* The steps of a request other than the one that is alone.
LEMMA MoveKeeps ==
    ASSUME AloneInv, NEW o \in Op, Active(o), TokenInv',
           op'[o].req = op[o].req, op'[o].alone = op[o].alone,
           op'[o].pc = "none" => op[o].pc = "none",
           op[o].pc # "none" => op'[o].pc # "none",
           \A p \in Op \ {o} : op'[p] = op[p] /\ \A u \in Node : srv'[p][u] = srv[p][u],
           \A x : x # NoToken /\ Absent(x) => Absent(x)',
           op[o].req.action \in {"insert", "rotate"} /\ Works(o) => Works(o)'
    PROVE  AloneInv'
<1>1. Unused'
  <2> SUFFICES ASSUME NEW q \in Op, op'[q].pc = "none" \/ op'[q].req.action # "rotate"
               PROVE  Absent(New(q))'
    BY DEF Unused, New
  <2>1. op[q].pc = "none" \/ op[q].req.action # "rotate"
    BY DEF AloneInv
  <2>2. Absent(New(q)) /\ New(q) # NoToken
    BY <2>1, NewTokens DEF AloneInv, Unused
  <2>3. PICK x : x = New(q)
    OBVIOUS
  <2> QED
    BY <2>2, <2>3 DEF New, Absent
<1>2. \A q \in Op : op'[q].alone => q = o /\ op[o].alone
  BY DEF AloneInv, Quiet
<1>3. Quiet'
  BY <1>2 DEF AloneInv, Quiet, Active
<1> QED
  BY <1>1, <1>2, <1>3 DEF AloneInv

LEMMA BeginKeeps ==
    ASSUME AloneInv, TokenInv', NEW o \in Op, NEW n \in Node, UNCHANGED <<file, srv>>,
           op[o].pc = "none", op'[o].pc \in {"token", "send"}, op'[o].at = n,
           op'[o].todo = op'[o].targets, ~op'[o].failed, ~op'[o].silent,
           \A q \in Op : op'[q].pc = "none" \/ op'[q].req.action # "rotate" =>
                            op'[o].old # New(q) /\ op'[o].req.token # New(q),
           op'[o].req.action = "rotate" =>
              /\ n \notin op'[o].targets /\ op'[o].req.token = New(o) /\ op'[o].old # New(o),
           op'[o].alone = (\A q \in Op \ {o} : ~Active(q)),
           \A p \in Op \ {o} : /\ ~op'[p].alone /\ op'[p].pc = op[p].pc
                               /\ op'[p].req = op[p].req /\ op'[p].old = op[p].old
    PROVE  AloneInv'
<1>1. Unused'
  <2> SUFFICES ASSUME NEW q \in Op, op'[q].pc = "none" \/ op'[q].req.action # "rotate"
               PROVE  Absent(New(q))'
    BY DEF Unused, New
  <2>1. q # o => op[q].pc = "none" \/ op[q].req.action # "rotate"
    OBVIOUS
  <2>2. Absent(New(q))
    BY <2>1 DEF AloneInv, Unused
  <2>3. op'[o].old # New(q) /\ op'[o].req.token # New(q)
    OBVIOUS
  <2> QED
    BY <2>2, <2>3 DEF Absent, New
<1>2. Quiet'
  <2> SUFFICES ASSUME op'[o].alone
               PROVE  \A q \in Op \ {o} : ~(Active(q)')
    BY DEF Quiet
  <2> QED
    BY DEF Active
<1>3. Works(o)'
  <2>1. \A t \in Node : srv'[o][t].pc = "idle"
    BY DEF AloneInv, TokenInv, SrvTokens
  <2>2. Coordinated(o)'
    BY DEF Coordinated
  <2>3. Rotating(o)'
    <3> SUFFICES ASSUME op'[o].req.action = "rotate"
                 PROVE  /\ ~op'[o].silent /\ op'[o].at \notin op'[o].targets
                        /\ op'[o].req.token = New(o)
                        /\ op'[o].pc = "token" => op'[o].old # New(o)
                        /\ file'[op'[o].at].token # New(o)
      BY DEF Rotating, New
    <3>1. file[n].token # New(o)
      BY DEF AloneInv, Unused, Absent
    <3> QED
      BY <3>1
  <2>4. \A t \in Node : Served(o, t)'
    BY <2>1 DEF Served, Steps
  <2> QED
    BY <2>2, <2>3, <2>4 DEF Works
<1> QED
  BY <1>1, <1>2, <1>3 DEF AloneInv

LEMMA StepAlone == AloneInv /\ [Next]_vars => AloneInv'
<1> SUFFICES ASSUME AloneInv, [Next]_vars PROVE AloneInv'
  OBVIOUS
<1>1. TokenInv /\ TokenInv' /\ Shape
  BY StepTokens DEF AloneInv, TokenInv
<1>2. ASSUME NEW o \in Op, NEW n \in Entry, NEW r \in Request, ApplyClusterConfig(o, n, r)
      PROVE  AloneInv'
  <2>1. /\ UNCHANGED <<file, srv>> /\ op[o].pc = "none" /\ n \in Node
        /\ op'[o].pc \in {"token", "send"} /\ op'[o].at = n
        /\ op'[o].todo = op'[o].targets /\ ~op'[o].failed /\ ~op'[o].silent
        /\ op'[o].alone = (\A q \in Op \ {o} : ~Active(q))
        /\ \A p \in Op \ {o} : /\ ~op'[p].alone /\ op'[p].pc = op[p].pc
                                /\ op'[p].req = op[p].req /\ op'[p].old = op[p].old
    BY <1>1, <1>2, ApplyBegins
  <2>2. ASSUME NEW q \in Op, op'[q].pc = "none" \/ op'[q].req.action # "rotate"
        PROVE  op'[o].old # New(q) /\ op'[o].req.token # New(q)
    <3>1. /\ op'[o].old \in {NoToken, r.token, file[n].token, NewToken(o, "ensured")}
          /\ op'[o].req.token = op'[o].old /\ n \in Node /\ op[o].pc = "none"
      BY <1>1, <1>2, ApplyBegins
    <3>2. New(q) # NoToken /\ r.token # New(q) /\ NewToken(o, "ensured") # New(q)
      BY NewTokens
    <3>3. op[q].pc = "none" \/ op[q].req.action # "rotate"
      BY <1>1, <1>2, <2>2, ApplyBegins
    <3>4. file[n].token # New(q)
      BY <3>1, <3>3 DEF AloneInv, Unused, Absent
    <3> QED
      BY <3>1, <3>2, <3>4
  <2>3. op'[o].req.action # "rotate"
    <3>1. op'[o].req.action = r.action
      BY <1>1, <1>2, ApplyBegins
    <3>2. r.action # "rotate"
      BY <1>2, Zenon DEF ApplyClusterConfig
    <3> QED
      BY <3>1, <3>2
  <2> QED
    BY <1>1, <2>2, <2>1, <2>3, BeginKeeps
<1>3. ASSUME NEW o \in Op, NEW n \in Entry, NEW r \in Request, RotateInternalToken(o, n, r)
      PROVE  AloneInv'
  <2>1. /\ UNCHANGED <<file, srv>> /\ op[o].pc = "none" /\ n \in Node
        /\ op'[o].pc \in {"token", "send"} /\ op'[o].at = n
        /\ op'[o].todo = op'[o].targets /\ ~op'[o].failed /\ ~op'[o].silent
        /\ op'[o].alone = (\A q \in Op \ {o} : ~Active(q))
        /\ \A p \in Op \ {o} : /\ ~op'[p].alone /\ op'[p].pc = op[p].pc
                                /\ op'[p].req = op[p].req /\ op'[p].old = op[p].old
    BY <1>1, <1>3, RotationBegins
  <2>2. ASSUME NEW q \in Op, q = o \/ op'[q].pc = "none" \/ op'[q].req.action # "rotate"
        PROVE  /\ op'[o].old # New(q)
               /\ q # o => op'[o].req.token # New(q)
    <3>1. /\ op'[o].old \in {file[n].token, NewToken(o, "ensured")}
          /\ op'[o].req.token = New(o) /\ n \in Node /\ op[o].pc = "none"
      BY <1>1, <1>3, RotationBegins
    <3>2. NewToken(o, "ensured") # New(q) /\ (q # o => New(o) # New(q))
      BY NewTokens
    <3>3. op[q].pc = "none" \/ op[q].req.action # "rotate"
      BY <2>1, <2>2, <3>1
    <3>4. file[n].token # New(q)
      BY <3>1, <3>3 DEF AloneInv, Unused, Absent
    <3> QED
      BY <3>1, <3>2, <3>4
  <2>3. /\ op'[o].req.action = "rotate" /\ n \notin op'[o].targets
        /\ op'[o].req.token = New(o)
    BY <1>1, <1>3, RotationBegins
  <2>4. op'[o].old # New(o)
    BY <2>2
  <2>5. ASSUME NEW q \in Op, op'[q].pc = "none" \/ op'[q].req.action # "rotate"
        PROVE  op'[o].old # New(q) /\ op'[o].req.token # New(q)
    BY <2>2, <2>1, <2>3, <2>5
  <2> QED
    BY <1>1, <2>1, <2>3, <2>4, <2>5, BeginKeeps
<1>4. ASSUME NEW o \in Op, Coordinate(o)
      PROVE  AloneInv'
  <2>1. Active(o)
    BY <1>1, <1>4, CoordinateFrame DEF Active
  <2>2. \A x : x # NoToken /\ Absent(x) => Absent(x)'
    BY <1>1, <1>4, CoordinateAbsent
  <2>3. op[o].req.action \in {"insert", "rotate"} /\ Works(o) => Works(o)'
    BY <1>1, <1>4, CoordinateWorks
  <2> QED
    BY <1>1, <1>4, <2>1, <2>2, <2>3, CoordinateFrame, MoveKeeps
<1>5. ASSUME NEW o \in Op, NEW t \in Node, Serve(o, t)
      PROVE  AloneInv'
  <2>1. Active(o) /\ op' = op
    BY <1>1, <1>5, ServeFrame DEF Active
  <2>2. \A x : x # NoToken /\ Absent(x) => Absent(x)'
    BY <1>1, <1>5, ServeAbsent
  <2>3. op[o].req.action \in {"insert", "rotate"} /\ Works(o) => Works(o)'
    BY <1>1, <1>5, ServeWorks
  <2> QED
    BY <1>1, <1>5, <2>1, <2>2, <2>3, ServeFrame, MoveKeeps
<1>6. CASE UNCHANGED vars
  BY <1>6 DEF vars, AloneInv, TokenInv, Shape, OpTokens, SrvTokens, Unused, Absent, Quiet, Active,
              Works, Coordinated, Rotating, Served, Reached
<1> QED
  BY <1>2, <1>3, <1>4, <1>5, <1>6 DEF Next

LEMMA AloneHolds == Spec => []AloneInv
<1> QED
  BY InitAlone, StepAlone, PTL DEF Spec

\* A rotation that nothing else meets writes its token to its own machine as its last step, and
\* comes to that step only when no call has failed: a call that has not failed has saved the
\* token on its machine, and nobody else writes there.
THEOREM OwnTokenSafe == Spec => []OwnTokenLast
<1>1. AloneInv => OwnTokenLast
  <2> SUFFICES ASSUME AloneInv, NEW o \in Op, op[o].alone, op[o].req.action = "rotate",
                      file[op[o].at].token = op[o].req.token, NEW t \in op[o].targets
               PROVE  file[t].token = op[o].req.token
    BY DEF OwnTokenLast
  <2>1. Coordinated(o) /\ Rotating(o)
    BY DEF AloneInv, Works
  <2>2. op[o].pc = "ok" /\ ~op[o].silent
    BY <2>1 DEF Rotating
  <2> QED
    BY <2>1, <2>2 DEF Coordinated, Reached
<1> QED
  BY <1>1, AloneHolds, PTL

\* An insert that nothing else meets and that is answered with success has left, on every
\* machine it was sent to, what it makes of an empty file: a call that has not failed has reset
\* the file of its machine before it loads and saves it.
THEOREM InsertSafe == Spec => []InsertUnifies
<1>1. AloneInv => InsertUnifies
  <2> SUFFICES ASSUME AloneInv, NEW o \in Op, DoneAlone(o), op[o].req.action = "insert",
                      NEW t \in op[o].targets
               PROVE  file[t] = Final(op[o].req) /\ file[t].token = op[o].req.token
    BY DEF InsertUnifies
  <2>1. Coordinated(o) /\ op[o].pc = "ok" /\ ~op[o].silent
    BY DEF AloneInv, Works, DoneAlone
  <2>2. Reached(o, t)
    BY <2>1 DEF Coordinated
  <2> QED
    BY <2>2 DEF Reached, Final
<1> QED
  BY <1>1, AloneHolds, PTL

=============================================================================
