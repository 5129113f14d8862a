---------------------------- MODULE MCCityDemand ----------------------------
\* A zone that is being announced is a value of pc: the zones are model values,
\* which are equal to none of its strings.
EXTENDS CityDemand
=============================================================================
