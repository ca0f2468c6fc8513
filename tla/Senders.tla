-------------------------------- MODULE Senders --------------------------------
(***************************************************************************)
(* Who uses a UMessageBuilder: an application, or one of the classes that  *)
(* keep a builder of their own and send what it builds: Publisher,         *)
(* NotificationSource, RpcClient, and RpcClientUSubscription on top of an  *)
(* RpcClient.  A constructor that throws makes nothing and is not a step.  *)
(***************************************************************************)
EXTENDS MessageBuilder, Serializers, USubscription

VARIABLE sender         \* who owns the builder, and the service it calls, if fixed

allVars == <<vars, sender>>

Kinds == {"application", "publisher", "source", "client", "usubscription"}

\* std::optional<T>
Optional(S) == {{}} \union {{x} : x \in S}

\* A with...() call that is made if there is a value
IfAny(With(_, _), b, value) == IF value = {} THEN {b} ELSE {With(b, x) : x \in value}

\* The names that occur, and the UUris with such names that a protobuf message can hold
Names == {""} \union {u.authority : u \in Uris \union UNION {m.source \union m.sink : m \in Foreign}}
UUriRecords == [authority : Names, instance : 0..UINT16_MAX, service : 0..UINT16_MAX,
                version : Nat, resource : Nat]

\* Every id fits into a UUID, and every UUri into its message.
ASSUME FieldsAssumption ==
    /\ MaxTime \div TicksPerMs < Timestamps
    /\ Randoms \subseteq 0 .. RandomA * RandomB - 1
    /\ Uris \subseteq UUriRecords
    /\ \A m \in Foreign : m.id \in Fields /\ m.source \union m.sink \subseteq UUriRecords

-------------------------------------------------------------------------------
(* Constructors. *)

NothingYet == builder = {} /\ sender.kind = "application"

Own(kind, service, b) ==
    /\ sender' = [kind |-> kind, service |-> service]
    /\ builder' = {b}
    /\ UNCHANGED <<now, answered, built, payload>>

\* priority.value_or(CS1)
NewPublisher ==
    NothingYet /\ \E topic \in Uris, format \in Formats, level \in Levels \union {CS1},
       ttl \in Optional(Ttls) :
        /\ CanPublish(topic)
        /\ CanSetFormat(format)
        /\ CanSetPriority(publish(topic), level)
        /\ \A t \in ttl : CanSetTtl(t)
        /\ \E b \in IfAny(withTtl, withPriority(withPayloadFormat(publish(topic), format),
                                               level), ttl) :
               Own("publisher", {}, b)

NewNotificationSource ==
    NothingYet /\ \E source, sink \in Uris, format \in Optional(Formats), level \in Levels \union {CS1},
       ttl \in Optional(Ttls) :
        /\ CanNotify(source, sink)
        /\ CanSetPriority(notification(source, sink), level)
        /\ \A f \in format : CanSetFormat(f)
        /\ \A t \in ttl : CanSetTtl(t)
        /\ \E b \in IfAny(withPayloadFormat,
                          withPriority(notification(source, sink), level), format) :
               \E c \in IfAny(withTtl, b, ttl) : Own("source", {}, c)

\* The request builder starts with a blank UUri for a sink, which no check sees.
BlankUri == [authority |-> "", instance |-> 0, service |-> 0, version |-> 0, resource |-> 0]

\* The entity is that of a UTransport, whose constructor has checked it.
NewRpcClient(entity, level, ttl, format, permission, token, kind, service) ==
    LET b == Builder("request", entity, {BlankUri}, {})
    IN  /\ CanTransport(entity)
        /\ CanSetPriority(b, level)
        /\ CanSetTtl(ttl)
        /\ \A f \in format : CanSetFormat(f)
        /\ \E c \in IfAny(withPayloadFormat, withTtl(withPriority(b, level), ttl), format) :
           \E d \in IfAny(withPermissionLevel, c, permission) :
           \E e \in IfAny(withToken, d, token) : Own(kind, service, e)

NewClient ==
    NothingYet /\ \E entity \in Uris, level \in Levels, ttl \in Ttls, format \in Optional(Formats),
       permission \in Optional({1}), token \in Optional({"token"}) :
        NewRpcClient(entity, level, ttl, format, permission, token, "client", {})

NewUSubscriptionClient ==
    NothingYet /\ \E entity, at \in Uris, ttl \in Ttls :
        NewRpcClient(entity, CS4, ttl, {}, {}, {}, "usubscription",
                     {setInstanceId(setAuthorityName(ServiceUri, at.authority), at.instance)})

-------------------------------------------------------------------------------
(* Sending: the message built is given to UTransport::send(). *)

Sends(kind, step) == sender.kind = kind /\ step /\ UNCHANGED sender

Publish           == Sends("publisher", BuildWithPayloadTo(AsIs))
NotifyWithPayload == Sends("source", BuildWithPayloadTo(AsIs))
Notify            == Sends("source", BuildTo(AsIs))

\* invokeMethod(method) and invokeMethod(method, payload)
Invoke            == Sends("client", BuildTo(ToMethod))
InvokeWithPayload == Sends("client", BuildWithPayloadTo(ToMethod))

\* protoToPayload(): the request, packed in an Any
WRAPPED_IN_ANY == 1
protoToPayload(proto) == [content |-> proto, format |-> WRAPPED_IN_ANY, moved |-> FALSE]

\* invokeMethodToProto(): the method is set in the builder, where it stays, and the
\* payload is a temporary.
InvokeToProto(methods) ==
    \E b \in builder, method \in methods, id \in FreshIds, o \in {protoToPayload("data")} :
        /\ CanSetMethod(method)
        /\ builder' = {withMethod(b, method)}
        /\ IF CanBuildWith(b, o.format)
           THEN built' = {[msg |-> BuiltWith(withMethod(b, method), id, o.format, o.content),
                           at |-> now]}
           ELSE UNCHANGED built
        /\ UNCHANGED <<now, answered, payload>>

InvokeProto == Sends("client", InvokeToProto(Uris))

\* The six operations of RpcClientUSubscription
CallService ==
    \E service \in sender.service :
        Sends("usubscription", InvokeToProto({getServiceUriWithResourceId(service, resource) :
                                                  resource \in ServiceMethods}))

SendersInit == Init /\ sender = [kind |-> "application", service |-> {}]

Next ==
    \/ Sends("application", Use)
    \/ Environment /\ UNCHANGED sender
    \/ NewPublisher \/ NewNotificationSource \/ NewClient \/ NewUSubscriptionClient
    \/ Publish \/ NotifyWithPayload \/ Notify
    \/ Invoke \/ InvokeWithPayload \/ InvokeProto \/ CallService

Spec == SendersInit /\ [][Next]_allVars

-------------------------------------------------------------------------------
(* Properties. *)

\* The messages built in this very tick, and the ids and the URIs in a message
JustBuilt == {r.msg : r \in {q \in built : q.at = now}}
Ids(m) == {m.id} \union m.reqid
UrisOf(m) == m.source \union m.sink

\* The URIs of a message that can be written; a slash in a name, which no check
\* refuses, is left to the application.
Writable(m) == {u \in UrisOf(m) : CanWriteUri(u) /\ u.authority # "/"}

\* UTransport::send() accepts at once whatever a Publisher, a NotificationSource or
\* an RpcClientUSubscription built, for all arguments that their constructors let
\* pass; and what an RpcClient built, exactly when the method is one.  The URIs of
\* an accepted message pass the catch-all check isValid() of a UUri, whatever the
\* sender.
AcceptedAtOnce ==
    /\ sender.kind # "application" =>
          \A r \in built :
              /\ isValid(r.msg, r.at) <=> SinkFits(r.msg)
              /\ sender.kind # "client" => SinkFits(r.msg)
    /\ \A m \in JustBuilt : isValid(m, now) => \A u \in UrisOf(m) : isValidUri(u)

\* The ids in a message survive being written as a string or as bytes and read
\* again, and the validators read from the result the very fields that the builder
\* put in, also when the low part of the timestamp wraps.
IdsSurvive ==
    \A m \in JustBuilt : \A id \in Ids(m) :
        /\ {Unpacked(w) : w \in ReadUuid(UuidText(Packed(id)))} = {id}
        /\ {Unpacked(w) : w \in ReadBytes(UuidBytes(Packed(id)))} = {id}

\* The string of a UUID, without its dashes, spells the bytes of the UUID.
SameSpelling ==
    \A m \in JustBuilt : \A id \in Ids(m) :
        SelectSeq(UuidText(Packed(id)), LAMBDA c : c # "-")
            = FlattenSeq([i \in DOMAIN UuidBytes(Packed(id)) |->
                             Hex(UuidBytes(Packed(id))[i], 2, Lower)])

\* A URI of a message that can be written at all is read again as itself, with and
\* without the scheme.
UrisSurvive ==
    \A m \in JustBuilt : \A u \in Writable(m) :
        /\ ReadUri(UriText(u)) = {u}
        /\ ~isLocal(u) => ReadUri(<<"u", "p", ":">> \o UriText(u)) = {u}

\* A text that lost one character is not read as another id, and one that lost a
\* separator is not read as another URI.
DamageIsNoticed ==
    \A m \in JustBuilt :
        /\ \A id \in Ids(m) :
              LET text == UuidText(Packed(id))
              IN  \A i \in DOMAIN text : ReadUuid(RemoveAt(text, i)) = {}
        /\ \A u \in Writable(m) :
              LET text == UriText(u)
              IN  \A i \in {j \in DOMAIN text : text[j] = "/"} :
                      ReadUri(RemoveAt(text, i)) = {}

===============================================================================
