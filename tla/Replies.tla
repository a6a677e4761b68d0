------------------------------ MODULE Replies ------------------------------
(***************************************************************************)
(* What a REDE command can send back.  Each shape stands for one call of   *)
(* the Redis module API (RedisModule_ReplyWith...); the API itself is      *)
(* outside the repository and is modelled from how module.c uses it.  The  *)
(* shapes have different fields, so that no two of them are ever equal.    *)
(***************************************************************************)

(* RedisModule_ReplyWithError, RedisModule_WrongArity. *)
ErrorReply(message) == [error |-> message]

(* RedisModule_ReplyWithSimpleString, with the text abstracted to its kind. *)
StatusReply(status) == [status |-> status]

(* RedisModule_ReplyWithString: the payload or the id of an element. *)
BulkReply(string) == [bulk |-> string]

(* RedisModule_ReplyWithNull. *)
NullReply == [null |-> TRUE]

(* RedisModule_ReplyWithLongLong. *)
IntegerReply(n) == [integer |-> n]

(* RedisModule_ReplyWithArray, the replies sent for its members, and the   *)
(* closing RedisModule_ReplySetArrayLength.                                *)
ArrayReply(members) == [array |-> members]

(* REDISMODULE_ERRORMSG_WRONGTYPE and the messages of module.c. *)
WrongType     == ErrorReply("WRONGTYPE")
WrongArity    == ErrorReply("wrong number of arguments")
NotDehydrator == ErrorReply("Not a dehydrator.")
NoDehydrator  == ErrorReply("No Such dehydrator.")
NoElement     == ErrorReply("No Such Element.")
Duplicate     == ErrorReply("Element already dehydrating.")
============================================================================
