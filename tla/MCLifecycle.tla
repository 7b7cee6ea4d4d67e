---------------------------- MODULE MCLifecycle -----------------------------
(* Sources: no file, a file, a bad file, or a file overridden by another.   *)
EXTENDS Lifecycle, TLC

prod == [jwtSecret |-> "key", serviceKey |-> "svc", port |-> 0]
local == [environment |-> "development", serviceKey |-> "svc", port |-> 4241]

MCFiles == {<<>>, <<prod>>, <<local>>, <<prod, local>>, <<local, prod>>, <<prod, Bad>>}

MCEnv == {<<>>, [environment |-> "DEV", port |-> NotANumber], [port |-> 70000],
          [environment |-> "production", serviceKey |-> ""], [jwtSecret |-> "blank", port |-> 80]}

MCFlags == {[p |-> 0, port |-> 0], [p |-> 8881, port |-> 1], [p |-> -1, port |-> 99999],
            [p |-> 0, port |-> 99999]}

MCSource == MCFiles \X MCEnv \X MCFlags
=============================================================================
