-------------------------- MODULE MCMessageIngress --------------------------
(* Small instances of MessageIngress. *)
EXTENDS MessageIngress

Post(who, kind, root, text) ==
    [who |-> who, kind |-> kind, root |-> root, thread |-> 0, channel |-> "ops",
     text |-> text, hook |-> "", accounts |-> {}, environments |-> {}]

(* A person who asks and answers, and a bot that posts alerts. *)
MCInputs == {Post("ann", "human", TRUE, "ask"), Post("ann", "human", FALSE, "yes"),
             Post("alerts", "bot", FALSE, "alert")}

(* The trigger of one workflow, and an alert rule of another one that      *)
(* trusts the alerting bot, beside a disabled rule for the same posts.     *)
Rule(id, enabled, priority, texts, trusted) ==
    [id |-> id, enabled |-> enabled, channels |-> {}, provider |-> "", priority |-> priority,
     texts |-> texts, trusted |-> trusted, hooks |-> {}, allow_bot |-> TRUE,
     root_posts_only |-> FALSE, accounts |-> {}, environments |-> {}]

MCConfigs ==
    {[workflow |-> "w1", channels |-> {"ops"}, triggers |-> {"ask", "yes", "own"}, rules |-> {}],
     [workflow |-> "w2", channels |-> {"ops"}, triggers |-> {},
      rules |-> {Rule("alert", TRUE, 1, {"alert", "own"}, {"alerts"}),
                 Rule("old", FALSE, 2, {"ask", "alert"}, {})}]}
=============================================================================
