----------------------------- MODULE USubscription -----------------------------
(***************************************************************************)
(* The uSubscription service as its clients see it: its URIs               *)
(* (USubscriptionUUriBuilder.cpp) and the requests that ProtoConverter.cpp *)
(* makes for it.                                                           *)
(***************************************************************************)
EXTENDS UUris

-------------------------------------------------------------------------------
(* URIs.  The numbers are options of the service's protobuf descriptor. *)

service_id            == 0
service_version_major == 3
notification_topic    == START_OF_TOPICS

ServiceUri ==
    [authority |-> "", instance |-> service_id \div (UINT16_MAX + 1),
     service |-> service_id % (UINT16_MAX + 1),
     version |-> service_version_major, resource |-> 0]

setAuthorityName(u, authority) == [u EXCEPT !.authority = authority]
setInstanceId(u, instance)     == [u EXCEPT !.instance = instance]

getServiceUriWithResourceId(u, resource) == [u EXCEPT !.resource = resource]
getNotificationUri(u) == [u EXCEPT !.resource = notification_topic]

RESOURCE_ID_SUBSCRIBE   == 1
RESOURCE_ID_UNSUBSCRIBE == 2

\* The methods that RpcClientUSubscription calls: subscribe, unsubscribe, fetch
\* subscriptions, (un)register for notifications, fetch subscribers
ServiceMethods == {RESOURCE_ID_SUBSCRIBE, RESOURCE_ID_UNSUBSCRIBE, 3, 6, 7, 8}

===============================================================================
