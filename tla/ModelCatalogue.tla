---------------------------- MODULE ModelCatalogue ----------------------------
(***************************************************************************)
(* The models table and its default flag (services/model_service.py,       *)
(* api/models.py).  The fields of a model other than is_default, its key   *)
(* in the vault and the connection test, which stores nothing, are left    *)
(* out; so is update_model, which writes nothing else.                     *)
(***************************************************************************)
EXTENDS AgentReferences

VARIABLE model     \* models: id -> [default]

NoSuccessor == 0

\* create_model: the first model, or one created while there is no default,
\* becomes the default.
BeginCreateModel(w) ==
    /\ Begin(w, [op |-> "create_model", default |-> Defaults(model) = {}])
    /\ UNCHANGED model

CreateModel(w) ==
    /\ Serving(w, "create_model") /\ HasRoom(model, "model")
    /\ LET rows == Put(model, NextId(model), [default |-> req[w].default])
       IN  model' = IF UniqueDefault(rows) THEN rows ELSE model
    /\ Respond(w)

\* set_default: one UPDATE takes the flag from all others; the flag of the
\* model itself is written only if it was not set when the row was read.
BeginSetDefaultModel(w, m) ==
    /\ m \in DOMAIN model
    /\ Begin(w, [op |-> "set_default_model", id |-> m, was |-> model[m].default])
    /\ UNCHANGED model

SetDefaultModelOnly(w) ==                        \* mutant: the old flag is kept
    /\ Serving(w, "set_default_model")
    /\ LET m == req[w].id
       IN  model' = IF m \in DOMAIN model THEN WithDefault(model, m, TRUE) ELSE model
    /\ Respond(w)

SetDefaultModel(w) ==
    /\ Serving(w, "set_default_model")
    /\ LET m == req[w].id
           others == [i \in DOMAIN model |->
                         IF i = m THEN model[i] ELSE [model[i] EXCEPT !.default = FALSE]]
       IN  model' = IF req[w].was THEN others
                      ELSE IF m \in DOMAIN model THEN WithDefault(others, m, TRUE)
                      ELSE model
    /\ Respond(w)

DeleteModelWithoutSuccessor(w, m, next) ==       \* mutant: others_count not looked at
    /\ m \in DOMAIN model
    /\ ~ Referenced("model", m)
    /\ next = NoSuccessor
    /\ Begin(w, [op |-> "delete_model", id |-> m, next |-> next])
    /\ UNCHANGED model

\* delete_model: refused while an agent uses the model; the default one needs a
\* successor unless it is the last.
BeginDeleteModel(w, m, next) ==
    /\ m \in DOMAIN model
    /\ ~ Referenced("model", m)
    /\ IF model[m].default /\ DOMAIN model # {m}
       THEN next \in DOMAIN model \ {m}
       ELSE next = NoSuccessor
    /\ Begin(w, [op |-> "delete_model", id |-> m, next |-> next])
    /\ UNCHANGED model

\* The flag goes to the successor, then the row is deleted, in one transaction.
DeleteModel(w) ==
    /\ Serving(w, "delete_model")
    /\ LET m == req[w].id
           next == req[w].next
       IN  model' =
             IF next = NoSuccessor THEN Drop(model, {m})
             ELSE IF ~ {m, next} \subseteq DOMAIN model THEN model
             ELSE LET rows == WithDefault(WithDefault(model, m, FALSE), next, TRUE)
                  IN  IF UniqueDefault(rows) THEN Drop(rows, {m}) ELSE model
    /\ Respond(w)

ModelStep(w) ==
    \/ BeginCreateModel(w) \/ CreateModel(w)
    \/ \E m \in Ids : BeginSetDefaultModel(w, m)
    \/ SetDefaultModel(w)
    \/ \E m \in Ids, next \in Ids \cup {NoSuccessor} : BeginDeleteModel(w, m, next)
    \/ DeleteModel(w)

=============================================================================
