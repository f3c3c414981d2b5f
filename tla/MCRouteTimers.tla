---------------------------- MODULE MCRouteTimers ----------------------------
\* Instances of RouteTimers with model values only.
EXTENDS RouteTimers
=============================================================================
