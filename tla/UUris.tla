--------------------------------- MODULE UUris ---------------------------------
(***************************************************************************)
(* The UUri validators (src/datamodel/validator/UUri.cpp).                 *)
(*                                                                         *)
(* A UUri is a record of the numbers its protobuf message holds; the two   *)
(* halves of ue_id are separate fields.  Of an authority name only what    *)
(* the checks tell apart is kept: "" is the zero-length name, " " any name *)
(* of white space, "*" the wildcard, "overlong" any name of more than 128  *)
(* characters, every other string an ordinary name.  A check returns       *)
(* whether the UUri passes; the reason it gives otherwise is left out.     *)
(***************************************************************************)
EXTENDS Naturals

UINT8_MAX       == 255
UINT16_MAX      == 65535
START_OF_TOPICS == 32768
MAX_RESOURCE_ID == 65535

-------------------------------------------------------------------------------

uriCommonValidChecks(u) ==
    /\ u.version # 0
    /\ u.version <= UINT8_MAX
    /\ u.resource <= UINT16_MAX
    /\ u.authority # "overlong"

\* has_wildcard_authority(), ..., has_wildcard_resource_id()
HasWildcard(u) ==
    \/ u.authority = "*"
    \/ u.service = UINT16_MAX
    \/ u.instance = UINT16_MAX
    \/ u.version = UINT8_MAX
    \/ u.resource = UINT16_MAX

verify_no_wildcards(u) == ~HasWildcard(u)

isEmpty(u) ==
    /\ u.authority \in {"", " "}
    /\ u.instance = 0 /\ u.service = 0
    /\ u.version = 0
    /\ u.resource = 0

isValidFilter(u) == ~isEmpty(u) /\ uriCommonValidChecks(u)

isLocal(u) == u.authority = ""

\* isValidRpcMethod() for a UUri
isMethod(u) ==
    /\ verify_no_wildcards(u)
    /\ u.resource # 0
    /\ u.resource < START_OF_TOPICS

\* isValidRpcResponse() and isValidNotificationSink() for a UUri: an entity
isEntity(u) == verify_no_wildcards(u) /\ u.resource = 0

\* isValidDefaultEntity()
isDefaultEntity(u) == ~isLocal(u) /\ isEntity(u)

isValidSubscription(u) ==
    u.resource >= START_OF_TOPICS /\ u.resource <= MAX_RESOURCE_ID

\* isValidPublishTopic() and isValidNotificationSource()
isTopic(u) == verify_no_wildcards(u) /\ isValidSubscription(u)

\* The deprecated isValid() of a UUri: fit for any of these uses
isValidUri(u) == isMethod(u) \/ isEntity(u) \/ isTopic(u)

-------------------------------------------------------------------------------

\* The constructor of UTransport accepts an entity URI.
CanTransport(entity) == isDefaultEntity(entity)

\* UTransport::registerListener() accepts a source filter and a sink filter, if any.
CanRegister(source, sink) ==
    IF sink = {} THEN isValidSubscription(source)
                 ELSE isValidFilter(source) /\ \A u \in sink : isValidFilter(u)

===============================================================================
