------------------------------- MODULE Config -------------------------------
(***************************************************************************)
(* What a service reads from its environment when it starts, and what it   *)
(* makes of it: the LoadConfig functions, the helpers they call, and the   *)
(* connections that are opened with the result before anything listens:    *)
(*                                                                         *)
(*   services/{user,notification,auth}/internal/config/config.go           *)
(*   pkg/config/env.go      GetEnvInt, GetEnvDuration                      *)
(*   .../platform/{database,redis,rabbitmq}   Open; rabbitmq.Dial          *)
(*                                                                         *)
(* A variable is unset, set to something useless ("junk": a port that is   *)
(* no number, the name of a host that does not exist), or set to what its  *)
(* reader wants ("good").  Variables whose junk nothing at run time can    *)
(* tell from a good value (pool sizes, CORS origins) are left out.         *)
(***************************************************************************)

Settings == {"unset", "junk", "good"}

DBVars     == {"DB_HOST", "DB_PORT", "DB_USER", "DB_PASSWORD", "DB_NAME"}
BrokerVars == {"RABBITMQ_URL"}
RedisVars  == {"REDIS_ADDR"}
JWTVars    == {"JWT_PRIVATE_KEY_PATH"}
SMTPVars   == {"NOTIFICATION_SMTP_HOST", "NOTIFICATION_SMTP_FROM_ADDRESS"}

UserVars         == {"PORT", "GRPC_PORT"} \cup DBVars \cup BrokerVars
NotificationVars == {"PORT"} \cup DBVars \cup BrokerVars \cup SMTPVars
AuthVars         == {"PORT", "USER_GRPC_ADDR"} \cup RedisVars \cup JWTVars

(* loadConsumerConfig: both have a default and are not required. *)
ConsumerVars     == {"NOTIFICATION_CONSUMER_MAX_RETRIES",
                     "NOTIFICATION_CONSUMER_RETRY_TTL"}

Variables == UserVars \cup NotificationVars \cup AuthVars \cup ConsumerVars

(* Every other service is a consumer built like notification. *)
Required(s) == CASE s = "user" -> UserVars
                 [] s = "auth" -> AuthVars
                 [] OTHER      -> NotificationVars

(* GetEnvInt and GetEnvDuration: the value if it parses, the default if    *)
(* the variable is unset or does not parse.                                *)
EnvInt(setting, value, default) ==
    IF setting = "good" THEN value ELSE default
EnvDuration(setting, value, default) ==
    IF setting = "good" THEN value ELSE default

RetryTTL(env) ==
    EnvDuration(env["NOTIFICATION_CONSUMER_RETRY_TTL"], "configured", "30s")

(* The key file must hold a PEM block with an RSA key. *)
KeyLoads(env) == env["JWT_PRIVATE_KEY_PATH"] = "good"

(* LoadConfig succeeds.  The ports are read with 0 as the default and 0 is *)
(* refused; a string is only tested for being empty.                       *)
Ports == {"PORT", "GRPC_PORT"}

Loads(s, env) ==
    /\ \A v \in Required(s) \ Ports : env[v] # "unset"
    /\ \A v \in Required(s) \cap Ports : EnvInt(env[v], 8080, 0) # 0
    /\ s = "auth" => KeyLoads(env)

(* The connections of main: database and broker for user and notification, *)
(* Redis for auth.  gRPC and SMTP peers are not contacted before they are  *)
(* needed.                                                                 *)
DatabaseOpens(env) == \A v \in DBVars : env[v] = "good"
Dials(env)         == \A v \in BrokerVars : env[v] = "good"
RedisOpens(env)    == \A v \in RedisVars : env[v] = "good"

Connects(s, env) ==
    IF s = "auth" THEN RedisOpens(env) ELSE DatabaseOpens(env) /\ Dials(env)

(* The variables a service starts with however useless their values are.   *)
Unchecked == SMTPVars \cup {"USER_GRPC_ADDR"}
=============================================================================
